---- MODULE Spec2Model ----
(***************************************************************************)
(* cadutil core (librecad_core.cpp): the in-memory document, the two       *)
(* reader adapters that fill it (DocumentImpl for the DXF tag stream,      *)
(* JwwReaderImpl for JWW records), the validator and the two writers.      *)
(*                                                                         *)
(* Reals are modelled by integers: coordinates, radii and angles are drawn *)
(* from small integer sets, and the +-1e20 start values of the bounding    *)
(* box by +-BoundSentinel, far outside every coordinate the model feeds.   *)
(* NaN is not modelled.                                                    *)
(***************************************************************************)
EXTENDS Integers, Sequences, FiniteSets, TLC

(* ------------------------------------------------------------------ *)
(* Bounds of the model                                                  *)
(* ------------------------------------------------------------------ *)
MaxEntities == 2
MaxLayers == 2
MaxBlocks == 2

(* ------------------------------------------------------------------ *)
(* Program constants                                                    *)
(* ------------------------------------------------------------------ *)
\* DRW_Coord minBound{1e20,...}, maxBound{-1e20,...}, scaled to TLC's integers
BoundSentinel == 1000000

LC_ENTITY_UNKNOWN == 0
LC_ENTITY_POINT == 1
LC_ENTITY_LINE == 2
LC_ENTITY_CIRCLE == 3
LC_ENTITY_ARC == 4
LC_ENTITY_ELLIPSE == 5
LC_ENTITY_POLYLINE == 6
LC_ENTITY_LWPOLYLINE == 7
LC_ENTITY_SPLINE == 8
LC_ENTITY_TEXT == 9
LC_ENTITY_MTEXT == 10
LC_ENTITY_INSERT == 11
LC_ENTITY_HATCH == 12
LC_ENTITY_DIMENSION == 13
LC_ENTITY_LEADER == 14
LC_ENTITY_SOLID == 15
LC_ENTITY_TRACE == 16
LC_ENTITY_3DFACE == 17
LC_ENTITY_IMAGE == 18
LC_ENTITY_VIEWPORT == 19

LC_OK == 0
LC_ERR_READ_ERROR == 3
LC_ERR_INVALID_FORMAT == 2
LC_ERR_WRITE_ERROR == 4
LC_ERR_UNSUPPORTED_VERSION == 5
LC_ERR_INVALID_ARGUMENT == 7

LC_FORMAT_UNKNOWN == 0
LC_FORMAT_DXF == 1
LC_FORMAT_DWG == 2
LC_FORMAT_JWW == 3
LC_FORMAT_JWC == 4

LC_DXF_VERSION_R12 == 12
LC_DXF_VERSION_R14 == 14
LC_DXF_VERSION_2000 == 2000
LC_DXF_VERSION_2004 == 2004
LC_DXF_VERSION_2007 == 2007
LC_DXF_VERSION_2010 == 2010
LC_DXF_VERSION_2013 == 2013
LC_DXF_VERSION_2018 == 2018

LC_DETAIL_SUMMARY == 0
LC_DETAIL_NORMAL == 1
LC_DETAIL_VERBOSE == 2
LC_DETAIL_FULL == 3

LC_SEVERITY_INFO == 0
LC_SEVERITY_WARNING == 1
LC_SEVERITY_ERROR == 2

(* ------------------------------------------------------------------ *)
(* Data                                                                 *)
(* ------------------------------------------------------------------ *)
Coord(px, py, pz) == [x |-> px, y |-> py, z |-> pz]

\* struct LayerData, with its member initialisers
LayerData ==
  [name |-> "", color |-> 7, lineType |-> "CONTINUOUS", lineWeight |-> 0,
   off |-> FALSE, frozen |-> FALSE, locked |-> FALSE]

\* struct BlockData: entities is the block's owned entity sequence
BlockData == [name |-> "", basePoint |-> Coord(0, 0, 0), entities |-> <<>>]

\* struct EntityData, with its member initialisers
EntityData ==
  [type |-> LC_ENTITY_UNKNOWN, layer |-> "", color |-> 256, lineType |-> "BYLAYER",
   lineWeight |-> -1, handle |-> 0,
   point1 |-> Coord(0, 0, 0), point2 |-> Coord(0, 0, 0),
   radius |-> 0, startAngle |-> 0, endAngle |-> 0,
   text |-> "", blockName |-> "", height |-> 0, rotation |-> 0,
   scaleX |-> 1, scaleY |-> 1, vertexCount |-> 0, degree |-> 0, closed |-> FALSE]

\* currentBlock = nullptr
NoBlock == 0

\* no lc_convert, lc_get_file_info or lc_validate call is in progress
NoCall == [op |-> "none", arg |-> <<>>, pc |-> "idle", closes |-> 0, ret |-> <<>>]

VARIABLES
  format,        \* which adapter lc_document_open chose: "DXF" or "JWW"
  phase,         \* "reading" (inside dxf.read / jww.in), "open" (document returned), "failed"
  lastEvent,     \* the callback the upstream parser delivered last
  arrived,       \* the entity events delivered so far, in arrival order
  layers,        \* DocumentImpl::layers
  blocks,        \* DocumentImpl::blocks
  currentBlock,  \* DocumentImpl::currentBlock, as a position in blocks (NoBlock = nullptr)
  entities,      \* DocumentImpl::entities
  minBound,      \* DocumentImpl::minBound
  maxBound,      \* DocumentImpl::maxBound
  g_last_error,  \* the thread-local last-error message
  result,        \* <<>> or <<r>>: the LcValidationResult of the last lc_document_validate
  written,       \* <<>> or <<w>>: the records of the file the last save produced
  info,          \* <<>> or <<r>>: the LcFileInfo of the last lc_document_get_info
  detected,      \* <<>> or <<r>>: the argument and result of the last lc_detect_format
  dxfWriter,     \* DocumentImpl::dxfWriter: <<>> (nullptr) or <<"dxf">> (&dxf)
  conv           \* the convenience call in progress: its name, position and close count

vars == <<format, phase, lastEvent, arrived, layers, blocks, currentBlock, entities,
          minBound, maxBound, g_last_error, result, written, info, detected, dxfWriter, conv>>

docVars == <<layers, blocks, currentBlock, entities, minBound, maxBound>>

Min(a, b) == IF b < a THEN b ELSE a
Max(a, b) == IF a < b THEN b ELSE a

\* DocumentImpl::updateBounds, on the pair (minBound, maxBound)
updateBounds_xOnly(b, p) ==
  [min |-> [b.min EXCEPT !.x = Min(b.min.x, p.x)],
   max |-> [b.max EXCEPT !.x = Max(b.max.x, p.x)]]

updateBounds(b, p) ==
  [min |-> Coord(Min(b.min.x, p.x), Min(b.min.y, p.y), Min(b.min.z, p.z)),
   max |-> Coord(Max(b.max.x, p.x), Max(b.max.y, p.y), Max(b.max.z, p.z))]

\* successive updateBounds calls of one handler, in call order
RECURSIVE updateAll(_, _)
updateAll(b, ps) ==
  IF ps = <<>> THEN b ELSE updateAll(updateBounds(b, Head(ps)), Tail(ps))

\* DocumentImpl::addEntityData
addEntityData_front(es, e) == <<e>> \o es

addEntityData(es, e) == Append(es, e)

\* the state of a freshly constructed DocumentImpl, before the parser runs
Init ==
  /\ format \in {"DXF", "JWW"}
  /\ phase = "reading"
  /\ lastEvent = "none"
  /\ arrived = <<>>
  /\ layers = <<>>
  /\ blocks = <<>>
  /\ currentBlock = NoBlock
  /\ entities = <<>>
  /\ minBound = Coord(BoundSentinel, BoundSentinel, BoundSentinel)
  /\ maxBound = Coord(-BoundSentinel, -BoundSentinel, -BoundSentinel)
  /\ g_last_error = ""
  /\ result = <<>>
  /\ written = <<>>
  /\ info = <<>>
  /\ detected = <<>>
  /\ dxfWriter = <<>>
  /\ conv = NoCall

\* a callback of the DXF adapter (DocumentImpl) is running
InDxf(ev) ==
  /\ phase = "reading"
  /\ format = "DXF"
  /\ lastEvent' = ev
  /\ UNCHANGED <<format, phase, g_last_error, result, written, info, detected, dxfWriter, conv>>

\* a callback of the JWW adapter (JwwReaderImpl) is running
InJww(ev) ==
  /\ phase = "reading"
  /\ format = "JWW"
  /\ lastEvent' = ev
  /\ UNCHANGED <<format, phase, g_last_error, result, written, info, detected, dxfWriter, conv>>

\* an entity callback: push e, then call updateBounds for each point of pts
StoreEntity(e, pts) ==
  /\ Len(entities) < MaxEntities
  /\ entities' = addEntityData(entities, e)
  /\ arrived' = Append(arrived, e)
  /\ LET b == updateAll([min |-> minBound, max |-> maxBound], pts)
     IN  minBound' = b.min /\ maxBound' = b.max
  /\ UNCHANGED <<layers, blocks, currentBlock>>

(* ------------------------------------------------------------------ *)
(* DXF adapter: DocumentImpl's DRW_Interface callbacks                  *)
(* ------------------------------------------------------------------ *)
addLayer(data) ==
  /\ InDxf("addLayer")
  /\ Len(layers) < MaxLayers
  /\ layers' = Append(layers,
       [LayerData EXCEPT !.name = data.name, !.color = data.color,
                         !.lineType = data.lineType, !.lineWeight = data.lWeight,
                         !.off = (data.flags % 2 = 1),
                         !.frozen = ((data.flags \div 2) % 2 = 1),
                         !.locked = ((data.flags \div 4) % 2 = 1)])
  /\ UNCHANGED <<blocks, currentBlock, entities, minBound, maxBound, arrived>>

addBlock(data) ==
  /\ InDxf("addBlock")
  /\ Len(blocks) < MaxBlocks
  /\ blocks' = Append(blocks,
       [BlockData EXCEPT !.name = data.name, !.basePoint = data.basePoint])
  /\ currentBlock' = Len(blocks) + 1
  /\ UNCHANGED <<layers, entities, minBound, maxBound, arrived>>

endBlock ==
  /\ InDxf("endBlock")
  /\ currentBlock' = NoBlock
  /\ UNCHANGED <<layers, blocks, entities, minBound, maxBound, arrived>>

\* the attributes every DXF entity callback copies from DRW_Entity
Common(t, data) ==
  [EntityData EXCEPT !.type = t, !.layer = data.layer, !.color = data.color,
                     !.lineType = data.lineType, !.handle = data.handle]

\* addTrace .. addImage copy layer, color and handle but not the line type
CommonNoLType(t, data) ==
  [EntityData EXCEPT !.type = t, !.layer = data.layer, !.color = data.color,
                     !.handle = data.handle]

addPoint(data) ==
  /\ InDxf("addPoint")
  /\ StoreEntity([Common(LC_ENTITY_POINT, data) EXCEPT !.point1 = data.basePoint],
                 <<data.basePoint>>)

addLine(data) ==
  /\ InDxf("addLine")
  /\ StoreEntity([Common(LC_ENTITY_LINE, data) EXCEPT
                    !.point1 = data.basePoint, !.point2 = data.secPoint],
                 <<data.basePoint, data.secPoint>>)

addArc(data) ==
  /\ InDxf("addArc")
  /\ LET c == data.basePoint
     IN StoreEntity([Common(LC_ENTITY_ARC, data) EXCEPT
                       !.point1 = data.basePoint, !.radius = data.radious,
                       !.startAngle = data.staangle, !.endAngle = data.endangle],
                    <<Coord(c.x - data.radious, c.y - data.radious, c.z),
                      Coord(c.x + data.radious, c.y + data.radious, c.z)>>)

\* a callback that drops a circle whose radius is not positive
addCircle_rejectsBadRadius(data) ==
  /\ InDxf("addCircle")
  /\ LET c == data.basePoint
     IN IF data.radious <= 0
          THEN UNCHANGED <<docVars, arrived>>
          ELSE StoreEntity([Common(LC_ENTITY_CIRCLE, data) EXCEPT
                              !.point1 = data.basePoint, !.radius = data.radious],
                           <<Coord(c.x - data.radious, c.y - data.radious, c.z),
                             Coord(c.x + data.radious, c.y + data.radious, c.z)>>)

addCircle(data) ==
  /\ InDxf("addCircle")
  /\ LET c == data.basePoint
     IN StoreEntity([Common(LC_ENTITY_CIRCLE, data) EXCEPT
                       !.point1 = data.basePoint, !.radius = data.radious],
                    <<Coord(c.x - data.radious, c.y - data.radious, c.z),
                      Coord(c.x + data.radious, c.y + data.radious, c.z)>>)

\* integer square root, exact on the perfect squares the model feeds
ISqrt(n) == CHOOSE r \in 0..n : r * r <= n /\ n < (r + 1) * (r + 1)

addEllipse(data) ==
  /\ InDxf("addEllipse")
  /\ LET majorLen == ISqrt(data.secPoint.x * data.secPoint.x
                           + data.secPoint.y * data.secPoint.y)
         c == data.basePoint
     IN StoreEntity([Common(LC_ENTITY_ELLIPSE, data) EXCEPT
                       !.point1 = data.basePoint, !.point2 = data.secPoint,
                       !.radius = data.ratio],
                    <<Coord(c.x - majorLen, c.y - majorLen, c.z),
                      Coord(c.x + majorLen, c.y + majorLen, c.z)>>)

\* the points a polyline-like callback feeds to updateBounds, one per vertex
VertexPoints2D(vs) == [i \in 1..Len(vs) |-> Coord(vs[i].x, vs[i].y, 0)]
VertexPoints3D(vs) == [i \in 1..Len(vs) |-> Coord(vs[i].x, vs[i].y, vs[i].z)]
VertexBasePoints(vs) == [i \in 1..Len(vs) |-> vs[i].basePoint]

addLWPolyline(data) ==
  /\ InDxf("addLWPolyline")
  /\ StoreEntity([Common(LC_ENTITY_LWPOLYLINE, data) EXCEPT
                    !.vertexCount = Len(data.vertlist),
                    !.closed = (data.flags % 2 = 1)],
                 VertexPoints2D(data.vertlist))

addPolyline(data) ==
  /\ InDxf("addPolyline")
  /\ StoreEntity([Common(LC_ENTITY_POLYLINE, data) EXCEPT
                    !.vertexCount = Len(data.vertlist),
                    !.closed = (data.flags % 2 = 1)],
                 VertexBasePoints(data.vertlist))

\* a pointer argument is <<>> (null) or <<d>>
addSpline(ptr) ==
  /\ InDxf("addSpline")
  /\ IF ptr = <<>>
       THEN UNCHANGED <<docVars, arrived>>
       ELSE LET data == ptr[1]
            IN StoreEntity([Common(LC_ENTITY_SPLINE, data) EXCEPT
                              !.vertexCount = Len(data.controllist),
                              !.degree = data.degree,
                              !.closed = (data.flags % 2 = 1)],
                           VertexPoints3D(data.controllist))

addInsert(data) ==
  /\ InDxf("addInsert")
  /\ StoreEntity([Common(LC_ENTITY_INSERT, data) EXCEPT
                    !.blockName = data.name, !.point1 = data.basePoint,
                    !.scaleX = data.xscale, !.scaleY = data.yscale,
                    !.rotation = data.angle],
                 <<data.basePoint>>)

addTrace(data) ==
  /\ InDxf("addTrace")
  /\ StoreEntity(CommonNoLType(LC_ENTITY_TRACE, data), <<>>)

add3dFace(data) ==
  /\ InDxf("add3dFace")
  /\ StoreEntity(CommonNoLType(LC_ENTITY_3DFACE, data), <<>>)

addSolid(data) ==
  /\ InDxf("addSolid")
  /\ StoreEntity(CommonNoLType(LC_ENTITY_SOLID, data), <<>>)

addMText(data) ==
  /\ InDxf("addMText")
  /\ StoreEntity([Common(LC_ENTITY_MTEXT, data) EXCEPT
                    !.text = data.text, !.point1 = data.basePoint,
                    !.height = data.height],
                 <<data.basePoint>>)

addText(data) ==
  /\ InDxf("addText")
  /\ StoreEntity([Common(LC_ENTITY_TEXT, data) EXCEPT
                    !.text = data.text, !.point1 = data.basePoint,
                    !.height = data.height, !.rotation = data.angle],
                 <<data.basePoint>>)

\* addDimAlign, addDimLinear, addDimRadial, addDimDiametric, addDimAngular,
\* addDimAngular3P, addDimOrdinate: seven callbacks with one body
DimCallbacks ==
  {"addDimAlign", "addDimLinear", "addDimRadial", "addDimDiametric",
   "addDimAngular", "addDimAngular3P", "addDimOrdinate"}

\* a callback that takes a pointer, returns on null, and stores the kind tag only
PtrKindOnly(ev, t, ptr) ==
  /\ InDxf(ev)
  /\ IF ptr = <<>>
       THEN UNCHANGED <<docVars, arrived>>
       ELSE StoreEntity(CommonNoLType(t, ptr[1]), <<>>)

addDim(cb, ptr) == PtrKindOnly(cb, LC_ENTITY_DIMENSION, ptr)

addLeader(ptr) == PtrKindOnly("addLeader", LC_ENTITY_LEADER, ptr)

addHatch(ptr) == PtrKindOnly("addHatch", LC_ENTITY_HATCH, ptr)

addImage(ptr) == PtrKindOnly("addImage", LC_ENTITY_IMAGE, ptr)

addViewport(data) ==
  /\ InDxf("addViewport")
  /\ StoreEntity([EntityData EXCEPT !.type = LC_ENTITY_VIEWPORT,
                                    !.layer = data.layer, !.handle = data.handle],
                 <<>>)

(* ------------------------------------------------------------------ *)
(* JWW adapter: JwwReaderImpl's DL_CreationInterface callbacks          *)
(* ------------------------------------------------------------------ *)
Jww_addLayer(data) ==
  /\ InJww("addLayer")
  /\ Len(layers) < MaxLayers
  /\ layers' = Append(layers, [LayerData EXCEPT !.name = data.name])
  /\ UNCHANGED <<blocks, currentBlock, entities, minBound, maxBound, arrived>>

Jww_addBlock(data) ==
  /\ InJww("addBlock")
  /\ Len(blocks) < MaxBlocks
  /\ blocks' = Append(blocks,
       [BlockData EXCEPT !.name = data.name,
                         !.basePoint = Coord(data.bpx, data.bpy, data.bpz)])
  /\ UNCHANGED <<layers, currentBlock, entities, minBound, maxBound, arrived>>

Jww_endBlock ==
  /\ InJww("endBlock")
  /\ UNCHANGED <<docVars, arrived>>

\* the EntityData e that addPoint, addLine, addArc, addCircle and addText of
\* JwwReaderImpl fill in before doc->addEntityData(e)
JwwStored(cb, data) ==
  CASE cb = "addPoint" ->
         [EntityData EXCEPT !.type = LC_ENTITY_POINT,
                            !.point1 = Coord(data.x, data.y, data.z)]
    [] cb = "addLine" ->
         [EntityData EXCEPT !.type = LC_ENTITY_LINE,
                            !.point1 = Coord(data.x1, data.y1, data.z1),
                            !.point2 = Coord(data.x2, data.y2, data.z2)]
    [] cb = "addArc" ->
         [EntityData EXCEPT !.type = LC_ENTITY_ARC,
                            !.point1 = Coord(data.cx, data.cy, data.cz),
                            !.radius = data.radius,
                            !.startAngle = data.angle1,
                            !.endAngle = data.angle2]
    [] cb = "addCircle" ->
         [EntityData EXCEPT !.type = LC_ENTITY_CIRCLE,
                            !.point1 = Coord(data.cx, data.cy, data.cz),
                            !.radius = data.radius]
    [] cb = "addText" ->
         [EntityData EXCEPT !.type = LC_ENTITY_TEXT,
                            !.text = data.text,
                            !.point1 = Coord(data.ipx, data.ipy, data.ipz),
                            !.height = data.height,
                            !.rotation = data.angle]

Jww_addPoint(data) ==
  /\ InJww("addPoint")
  /\ LET e == JwwStored("addPoint", data)
     IN StoreEntity(e, <<e.point1>>)

Jww_addLine(data) ==
  /\ InJww("addLine")
  /\ LET e == JwwStored("addLine", data)
     IN StoreEntity(e, <<e.point1, e.point2>>)

Jww_addArc(data) ==
  /\ InJww("addArc")
  /\ StoreEntity(JwwStored("addArc", data), <<>>)

Jww_addCircle(data) ==
  /\ InJww("addCircle")
  /\ StoreEntity(JwwStored("addCircle", data), <<>>)

Jww_addEllipse(data) ==
  /\ InJww("addEllipse")
  /\ StoreEntity([EntityData EXCEPT !.type = LC_ENTITY_ELLIPSE,
                                    !.point1 = Coord(data.cx, data.cy, data.cz),
                                    !.point2 = Coord(data.mx, data.my, data.mz),
                                    !.radius = data.ratio],
                 <<>>)

Jww_addPolyline(data) ==
  /\ InJww("addPolyline")
  /\ StoreEntity([EntityData EXCEPT !.type = LC_ENTITY_POLYLINE,
                                    !.vertexCount = data.number,
                                    !.closed = (data.flags % 2 = 1)],
                 <<>>)

\* addVertex and addControlPoint store nothing and only widen the box
Jww_addVertex(data) ==
  /\ InJww("addVertex")
  /\ LET b == updateBounds([min |-> minBound, max |-> maxBound],
                           Coord(data.x, data.y, data.z))
     IN  minBound' = b.min /\ maxBound' = b.max
  /\ UNCHANGED <<layers, blocks, currentBlock, entities, arrived>>

Jww_addSpline(data) ==
  /\ InJww("addSpline")
  /\ StoreEntity([EntityData EXCEPT !.type = LC_ENTITY_SPLINE,
                                    !.degree = data.degree,
                                    !.closed = (data.flags % 2 = 1)],
                 <<>>)

Jww_addControlPoint(data) ==
  /\ InJww("addControlPoint")
  /\ LET b == updateBounds([min |-> minBound, max |-> maxBound],
                           Coord(data.x, data.y, data.z))
     IN  minBound' = b.min /\ maxBound' = b.max
  /\ UNCHANGED <<layers, blocks, currentBlock, entities, arrived>>

Jww_addInsert(data) ==
  /\ InJww("addInsert")
  /\ StoreEntity([EntityData EXCEPT !.type = LC_ENTITY_INSERT,
                                    !.blockName = data.name,
                                    !.point1 = Coord(data.ipx, data.ipy, data.ipz),
                                    !.scaleX = data.sx, !.scaleY = data.sy,
                                    !.rotation = data.angle],
                 <<>>)

Jww_addMText(data) ==
  /\ InJww("addMText")
  /\ StoreEntity([EntityData EXCEPT !.type = LC_ENTITY_MTEXT,
                                    !.text = data.text,
                                    !.point1 = Coord(data.ipx, data.ipy, data.ipz),
                                    !.height = data.height],
                 <<>>)

Jww_addText(data) ==
  /\ InJww("addText")
  /\ StoreEntity(JwwStored("addText", data), <<>>)

\* the JWW callbacks that store a kind tag and nothing else: the seven addDim*,
\* addLeader, addHatch, addImage, addTrace, addSolid, add3dFace
JwwKindOnly ==
  [addDimAlign |-> LC_ENTITY_DIMENSION, addDimLinear |-> LC_ENTITY_DIMENSION,
   addDimRadial |-> LC_ENTITY_DIMENSION, addDimDiametric |-> LC_ENTITY_DIMENSION,
   addDimAngular |-> LC_ENTITY_DIMENSION, addDimAngular3P |-> LC_ENTITY_DIMENSION,
   addDimOrdinate |-> LC_ENTITY_DIMENSION, addLeader |-> LC_ENTITY_LEADER,
   addHatch |-> LC_ENTITY_HATCH, addImage |-> LC_ENTITY_IMAGE,
   addTrace |-> LC_ENTITY_TRACE, addSolid |-> LC_ENTITY_SOLID,
   add3dFace |-> LC_ENTITY_3DFACE]

Jww_addKindOnly(cb) ==
  /\ InJww(cb)
  /\ StoreEntity([EntityData EXCEPT !.type = JwwKindOnly[cb]], <<>>)

(* ------------------------------------------------------------------ *)
(* lc_document_open: how the read ends                                  *)
(* ------------------------------------------------------------------ *)
\* dxf.read / jww.in returned true: the document is released to the caller
ReadDone ==
  /\ phase = "reading"
  /\ phase' = "open"
  /\ lastEvent' = "eof"
  /\ UNCHANGED <<format, arrived, docVars, g_last_error, result, written, info, detected, dxfWriter, conv>>

\* dxf.read / jww.in returned false (an upstream parse or I/O failure): the
\* message is set, NULL is returned and the unique_ptr destroys the document
ReadFail ==
  /\ phase = "reading"
  /\ phase' = "failed"
  /\ lastEvent' = "error"
  /\ g_last_error' = IF format = "DXF" THEN "Failed to read DXF file"
                                       ELSE "Failed to read JWW file"
  /\ layers' = <<>>
  /\ blocks' = <<>>
  /\ currentBlock' = NoBlock
  /\ entities' = <<>>
  /\ arrived' = <<>>
  /\ minBound' = Coord(BoundSentinel, BoundSentinel, BoundSentinel)
  /\ maxBound' = Coord(-BoundSentinel, -BoundSentinel, -BoundSentinel)
  /\ UNCHANGED <<format, result, written, info, detected, dxfWriter, conv>>

(* ------------------------------------------------------------------ *)
(* lc_document_validate                                                 *)
(* ------------------------------------------------------------------ *)
\* std::to_string on a non-negative int
Digit(d) ==
  CASE d = 0 -> "0" [] d = 1 -> "1" [] d = 2 -> "2" [] d = 3 -> "3" [] d = 4 -> "4"
    [] d = 5 -> "5" [] d = 6 -> "6" [] d = 7 -> "7" [] d = 8 -> "8" [] d = 9 -> "9"

RECURSIVE to_string(_)
to_string(n) == IF n < 10 THEN Digit(n) ELSE to_string(n \div 10) \o Digit(n % 10)

Issue(sev, c, msg, loc) ==
  [severity |-> sev, code |-> c, message |-> msg, location |-> loc]

\* "Check for empty drawing"
EmptyCheck(es) ==
  IF es = <<>>
    THEN <<Issue(LC_SEVERITY_WARNING, "EMPTY_DRAWING", "Drawing contains no entities", "")>>
    ELSE <<>>

\* "Check for missing layer 0"
Layer0Check(ls) ==
  LET hasLayer0 == \E i \in 1..Len(ls) : ls[i].name = "0"
  IN IF ~hasLayer0 /\ ls # <<>>
       THEN <<Issue(LC_SEVERITY_WARNING, "MISSING_LAYER_0", "Standard layer '0' not found", "")>>
       ELSE <<>>

\* "Check layer reference", for the entity e at zero-based position idx
LayerRefCheck_noEmptyTest(e, idx, layerNames) ==
  IF e.layer \notin layerNames
    THEN <<Issue(LC_SEVERITY_ERROR, "UNDEFINED_LAYER",
                 "Entity references undefined layer: " \o e.layer,
                 "entity #" \o to_string(idx))>>
    ELSE <<>>

LayerRefCheck(e, idx, layerNames) ==
  IF e.layer # "" /\ e.layer \notin layerNames
    THEN <<Issue(LC_SEVERITY_ERROR, "UNDEFINED_LAYER",
                 "Entity references undefined layer: " \o e.layer,
                 "entity #" \o to_string(idx))>>
    ELSE <<>>

\* a check that takes an INSERT with an empty block name for a reference too
BlockRefCheck_noEmptyTest(e, idx, blockNames) ==
  IF e.type = LC_ENTITY_INSERT /\ e.blockName \notin blockNames
    THEN <<Issue(LC_SEVERITY_ERROR, "UNDEFINED_BLOCK",
                 "Insert references undefined block: " \o e.blockName,
                 "entity #" \o to_string(idx))>>
    ELSE <<>>

\* "Check block reference for inserts"
BlockRefCheck(e, idx, blockNames) ==
  IF e.type = LC_ENTITY_INSERT /\ e.blockName # "" /\ e.blockName \notin blockNames
    THEN <<Issue(LC_SEVERITY_ERROR, "UNDEFINED_BLOCK",
                 "Insert references undefined block: " \o e.blockName,
                 "entity #" \o to_string(idx))>>
    ELSE <<>>

\* "Check for invalid geometry"
RadiusCheck(e, idx) ==
  IF (e.type = LC_ENTITY_CIRCLE \/ e.type = LC_ENTITY_ARC) /\ e.radius <= 0
    THEN <<Issue(LC_SEVERITY_ERROR, "INVALID_RADIUS", "Circle/Arc has invalid radius",
                 "entity #" \o to_string(idx))>>
    ELSE <<>>

\* the body of the entity loop, for one entity
EntityChecks_radiusFirst(e, idx, layerNames, blockNames) ==
  RadiusCheck(e, idx) \o LayerRefCheck(e, idx, layerNames)
    \o BlockRefCheck(e, idx, blockNames)

EntityChecks(e, idx, layerNames, blockNames) ==
  LayerRefCheck(e, idx, layerNames) \o BlockRefCheck(e, idx, blockNames)
    \o RadiusCheck(e, idx)

\* the entity loop from position entityIndex + 1 on
RECURSIVE EntityLoop(_, _, _, _)
EntityLoop(es, entityIndex, layerNames, blockNames) ==
  IF entityIndex >= Len(es)
    THEN <<>>
    ELSE EntityChecks(es[entityIndex + 1], entityIndex, layerNames, blockNames)
           \o EntityLoop(es, entityIndex + 1, layerNames, blockNames)

\* "Check bounds validity"
BoundsCheck(mn, mx) ==
  IF mn.x > mx.x
    THEN <<Issue(LC_SEVERITY_INFO, "INVALID_BOUNDS",
                 "Drawing bounds are invalid (possibly empty drawing)", "")>>
    ELSE <<>>

\* "Populate result": is_valid starts at 1 and the scan stops at the first error
RECURSIVE ScanValid_warningsToo(_)
ScanValid_warningsToo(issues) ==
  IF issues = <<>> THEN 1
  ELSE IF Head(issues).severity >= LC_SEVERITY_WARNING THEN 0
  ELSE ScanValid_warningsToo(Tail(issues))

RECURSIVE ScanValid(_)
ScanValid(issues) ==
  IF issues = <<>> THEN 1
  ELSE IF Head(issues).severity = LC_SEVERITY_ERROR THEN 0
  ELSE ScanValid(Tail(issues))

\* lc_document_validate on a document with layer table ls, block table bs,
\* entities es and bounds mn, mx
validateDocument(ls, bs, es, mn, mx) ==
  LET layerNames == {ls[i].name : i \in 1..Len(ls)}
      blockNames == {bs[i].name : i \in 1..Len(bs)}
      issues == EmptyCheck(es) \o Layer0Check(ls)
                  \o EntityLoop(es, 0, layerNames, blockNames)
                  \o BoundsCheck(mn, mx)
  IN [is_valid |-> ScanValid(issues), issue_count |-> Len(issues), issues |-> issues]

\* lc_document_validate on the open document
lc_document_validate == validateDocument(layers, blocks, entities, minBound, maxBound)

\* a caller that holds the open document validates it
Validate ==
  /\ phase = "open"
  /\ result' = <<lc_document_validate>>
  /\ UNCHANGED <<format, phase, lastEvent, arrived, docVars, g_last_error, written, info, detected, dxfWriter, conv>>

(* ------------------------------------------------------------------ *)
(* Specification Spec: symbol tables, references and validation         *)
(* The parser delivers layer, block and entity events whose layer and   *)
(* block references are empty, defined or undefined; the caller then    *)
(* validates the document.                                              *)
(* ------------------------------------------------------------------ *)
P0 == Coord(0, 0, 0)
P1 == Coord(3, -2, 1)

LayerNames == {"0", "X"}
RefLayers == {"", "0"}
RefBlocks == {"", "B", "C"}
RefRadii == {0, 2}

DrwLayers ==
  {[name |-> n, color |-> 7, lineType |-> "CONTINUOUS", lWeight |-> 0, flags |-> 0] :
     n \in LayerNames}
DrwBlocks == {[name |-> "B", basePoint |-> P0]}
DrwLines ==
  {[layer |-> l, color |-> 256, lineType |-> "BYLAYER", handle |-> 0,
    basePoint |-> P0, secPoint |-> P1] : l \in RefLayers}
DrwCircles ==
  {[layer |-> l, color |-> 256, lineType |-> "BYLAYER", handle |-> 0,
    basePoint |-> P1, radious |-> r] : l \in RefLayers, r \in RefRadii}
DrwArcs ==
  {[layer |-> l, color |-> 256, lineType |-> "BYLAYER", handle |-> 0,
    basePoint |-> P1, radious |-> r, staangle |-> 0, endangle |-> 1] :
     l \in RefLayers, r \in RefRadii}
DrwInserts ==
  {[layer |-> l, color |-> 256, lineType |-> "BYLAYER", handle |-> 0,
    name |-> n, basePoint |-> P0, xscale |-> 1, yscale |-> 1, angle |-> 0] :
     l \in RefLayers, n \in RefBlocks}
DrwSolids == {[layer |-> l, color |-> 256, handle |-> 0] : l \in RefLayers}

DlLayers == {[name |-> n] : n \in LayerNames}
DlBlocks == {[name |-> "B", bpx |-> 0, bpy |-> 0, bpz |-> 0]}
DlLines == {[x1 |-> 0, y1 |-> 0, z1 |-> 0, x2 |-> 3, y2 |-> -2, z2 |-> 1]}
DlCircles == {[cx |-> 3, cy |-> -2, cz |-> 1, radius |-> r] : r \in RefRadii}
DlArcs ==
  {[cx |-> 3, cy |-> -2, cz |-> 1, radius |-> r, angle1 |-> 0, angle2 |-> 1] :
     r \in RefRadii}
DlInserts ==
  {[name |-> n, ipx |-> 0, ipy |-> 0, ipz |-> 0, sx |-> 1, sy |-> 1, angle |-> 0] :
     n \in {"B", "C"}}

Next ==
  \/ \E d \in DrwLayers : addLayer(d)
  \/ \E d \in DrwBlocks : addBlock(d)
  \/ endBlock
  \/ \E d \in DrwLines : addLine(d)
  \/ \E d \in DrwCircles : addCircle(d)
  \/ \E d \in DrwArcs : addArc(d)
  \/ \E d \in DrwInserts : addInsert(d)
  \/ \E d \in DrwSolids : addSolid(d)
  \/ \E d \in DlLayers : Jww_addLayer(d)
  \/ \E d \in DlBlocks : Jww_addBlock(d)
  \/ Jww_endBlock
  \/ \E d \in DlLines : Jww_addLine(d)
  \/ \E d \in DlCircles : Jww_addCircle(d)
  \/ \E d \in DlArcs : Jww_addArc(d)
  \/ \E d \in DlInserts : Jww_addInsert(d)
  \/ ReadDone
  \/ ReadFail
  \/ Validate

Spec == Init /\ [][Next]_vars

(* ------------------------------------------------------------------ *)
(* Properties of the validator (checked under Spec)                     *)
(* ------------------------------------------------------------------ *)
Validated == result # <<>>
Issues == result[1].issues
LayerTable == {layers[i].name : i \in 1..Len(layers)}
EntityLocation(n) == "entity #" \o ToString(n)

\* C1: is_valid is true exactly when no issue of the returned list has severity
\* Error; warnings and infos never make a document invalid.
C1_ValidIffNoError ==
  Validated =>
    ((result[1].is_valid = 1) <=>
       (\A i \in 1..Len(Issues) : Issues[i].severity # LC_SEVERITY_ERROR))

\* a validated document whose only issues are a warning and an info is valid
C1_Witness ==
  /\ Validated
  /\ result[1].is_valid = 1
  /\ \E i \in 1..Len(Issues) : Issues[i].severity = LC_SEVERITY_WARNING
  /\ entities # <<>>

\* the place of an issue in the documented order: EMPTY_DRAWING, MISSING_LAYER_0,
\* then per entity N: UNDEFINED_LAYER, UNDEFINED_BLOCK, INVALID_RADIUS, then
\* INVALID_BOUNDS; -1 for an issue that has no place in it
IssueOrd(iss) ==
  LET ns == {n \in 0..(Len(entities) - 1) : iss.location = EntityLocation(n)}
      sub == CASE iss.code = "UNDEFINED_LAYER" -> 0
               [] iss.code = "UNDEFINED_BLOCK" -> 1
               [] iss.code = "INVALID_RADIUS" -> 2
               [] OTHER -> -1
  IN CASE iss.code = "EMPTY_DRAWING" -> 0
       [] iss.code = "MISSING_LAYER_0" -> 1
       [] iss.code = "INVALID_BOUNDS" -> 2 + 3 * Len(entities)
       [] OTHER -> IF sub >= 0 /\ ns # {}
                     THEN 2 + 3 * (CHOOSE n \in ns : TRUE) + sub
                     ELSE -1

\* C2: the issue list is ordered EMPTY_DRAWING, MISSING_LAYER_0, the entity
\* issues grouped by entity in document order and, within one entity, in the
\* order UNDEFINED_LAYER, UNDEFINED_BLOCK, INVALID_RADIUS, and INVALID_BOUNDS last.
C2_IssuesOrdered ==
  Validated =>
    /\ \A i \in 1..Len(Issues) : IssueOrd(Issues[i]) >= 0
    /\ \A i, j \in 1..Len(Issues) : i < j => IssueOrd(Issues[i]) < IssueOrd(Issues[j])

\* MISSING_LAYER_0, then two issues of one entity, then an issue of a later entity
C2_Witness ==
  /\ Validated
  /\ \E i, j, k, l \in 1..Len(Issues) :
       /\ i < j /\ j < k /\ k < l
       /\ Issues[i].code = "MISSING_LAYER_0"
       /\ Issues[j].location = EntityLocation(0)
       /\ Issues[k].location = EntityLocation(0)
       /\ Issues[l].location = EntityLocation(1)

\* C3: the entity at zero-based position N gets an UNDEFINED_LAYER error, located
\* "entity #N", exactly when its layer is non-empty and not in the layer table.
C3_UndefinedLayer ==
  Validated =>
    /\ \A n \in 0..(Len(entities) - 1) :
         LET hits == {i \in 1..Len(Issues) :
                        /\ Issues[i].code = "UNDEFINED_LAYER"
                        /\ Issues[i].location = EntityLocation(n)}
             undefined == /\ entities[n + 1].layer # ""
                          /\ entities[n + 1].layer \notin LayerTable
         IN /\ undefined => Cardinality(hits) = 1
            /\ ~undefined => hits = {}
    /\ \A i \in 1..Len(Issues) :
         Issues[i].code = "UNDEFINED_LAYER" =>
           /\ Issues[i].severity = LC_SEVERITY_ERROR
           /\ \E n \in 0..(Len(entities) - 1) : Issues[i].location = EntityLocation(n)

\* entity #0 has an empty layer, entity #1 an undefined one, and only #1 is reported
C3_Witness ==
  /\ Validated
  /\ Len(entities) >= 2
  /\ entities[1].layer = ""
  /\ entities[2].layer # "" /\ entities[2].layer \notin LayerTable
  /\ \E i \in 1..Len(Issues) :
       Issues[i].code = "UNDEFINED_LAYER" /\ Issues[i].location = "entity #1"

(* ------------------------------------------------------------------ *)
(* Properties of the block and layer tables (checked under Spec)        *)
(* ------------------------------------------------------------------ *)
\* C5: a block-begin received while a block is open fails the read, and so does
\* a block-end received while no block is open.
C5_BlockNestingFails ==
  [][ LET nestedBegin == /\ lastEvent' = "addBlock"
                         /\ format = "DXF" /\ currentBlock # NoBlock
          unmatchedEnd == /\ lastEvent' = "endBlock"
                          /\ \/ format = "DXF" /\ currentBlock = NoBlock
                             \/ format = "JWW" /\ blocks = <<>>
      IN (phase = "reading" /\ (nestedBegin \/ unmatchedEnd)) => phase' = "failed"
    ]_vars

\* C6: the layer table never holds two layers with the same name.
C6_LayerNamesUnique ==
  \A i, j \in 1..Len(layers) : i # j => layers[i].name # layers[j].name

\* C7: an entity received while a block is open goes to that block's entity
\* sequence and not to the model-space collection; an entity received in model
\* space goes to the model-space collection.
C7_EntitiesGoToCurrentBlock ==
  [][ Len(arrived') = Len(arrived) + 1 =>
        LET e == arrived'[Len(arrived')]
        IN IF currentBlock # NoBlock
             THEN /\ entities' = entities
                  /\ blocks'[currentBlock].entities
                       = Append(blocks[currentBlock].entities, e)
             ELSE entities' = Append(entities, e)
    ]_vars

(* ------------------------------------------------------------------ *)
(* Specification SpecBounds: the bounding box                           *)
(* The parser delivers every kind of entity event, with varying         *)
(* geometry and fixed attributes; the caller then validates.            *)
(* ------------------------------------------------------------------ *)
BPts == {P0, P1}
BRadii == {2, 5}
P2 == Coord(5, 6, -4)

Attr == [layer |-> "0", color |-> 256, lineType |-> "BYLAYER", handle |-> 0]

BDrwPoints ==
  {[layer |-> "0", color |-> 256, lineType |-> "BYLAYER", handle |-> 0,
    basePoint |-> p] : p \in BPts}
BDrwLines ==
  {[layer |-> "0", color |-> 256, lineType |-> "BYLAYER", handle |-> 0,
    basePoint |-> p, secPoint |-> P2] : p \in BPts}
BDrwArcs ==
  {[layer |-> "0", color |-> 256, lineType |-> "BYLAYER", handle |-> 0,
    basePoint |-> p, radious |-> r, staangle |-> 0, endangle |-> 1] :
     p \in BPts, r \in BRadii}
BDrwCircles ==
  {[layer |-> "0", color |-> 256, lineType |-> "BYLAYER", handle |-> 0,
    basePoint |-> p, radious |-> r] : p \in BPts, r \in BRadii}
BDrwEllipses ==
  {[layer |-> "0", color |-> 256, lineType |-> "BYLAYER", handle |-> 0,
    basePoint |-> p, secPoint |-> Coord(3, 4, 0), ratio |-> 1] : p \in BPts}
BDrwLWPolylines ==
  {[layer |-> "0", color |-> 256, lineType |-> "BYLAYER", handle |-> 0,
    flags |-> 1, vertlist |-> vs] : vs \in {<<>>, <<[x |-> 5, y |-> 6]>>}}
BDrwPolylines ==
  {[layer |-> "0", color |-> 256, lineType |-> "BYLAYER", handle |-> 0,
    flags |-> 0, vertlist |-> vs] : vs \in {<<>>, <<[basePoint |-> P2]>>}}
BDrwSplines ==
  {<<>>} \cup
  {<<[layer |-> "0", color |-> 256, lineType |-> "BYLAYER", handle |-> 0,
      flags |-> 0, degree |-> 3, controllist |-> vs]>> : vs \in {<<>>, <<P2>>}}
BDrwInserts ==
  {[layer |-> "0", color |-> 256, lineType |-> "BYLAYER", handle |-> 0,
    name |-> "B", basePoint |-> p, xscale |-> 1, yscale |-> 1, angle |-> 0] :
     p \in BPts}
BDrwTexts ==
  {[layer |-> "0", color |-> 256, lineType |-> "BYLAYER", handle |-> 0,
    text |-> "Hi", basePoint |-> p, height |-> 2, angle |-> 0] : p \in BPts}
BDrwKindOnly == {<<>>, <<[layer |-> "0", color |-> 256, handle |-> 0]>>}

BDlPoints == {[x |-> p.x, y |-> p.y, z |-> p.z] : p \in BPts}
BDlLines ==
  {[x1 |-> p.x, y1 |-> p.y, z1 |-> p.z, x2 |-> 5, y2 |-> 6, z2 |-> -4] : p \in BPts}
BDlArcs ==
  {[cx |-> 3, cy |-> -2, cz |-> 1, radius |-> r, angle1 |-> 0, angle2 |-> 1] :
     r \in BRadii}
BDlCircles == {[cx |-> 3, cy |-> -2, cz |-> 1, radius |-> r] : r \in BRadii}
BDlEllipses ==
  {[cx |-> 3, cy |-> -2, cz |-> 1, mx |-> 3, my |-> 4, mz |-> 0, ratio |-> 1]}
BDlPolylines == {[number |-> 1, flags |-> 0]}
BDlSplines == {[degree |-> 3, flags |-> 0]}
BDlInserts ==
  {[name |-> "B", ipx |-> 3, ipy |-> -2, ipz |-> 1, sx |-> 1, sy |-> 1, angle |-> 0]}
BDlTexts ==
  {[text |-> "Hi", ipx |-> 3, ipy |-> -2, ipz |-> 1, height |-> 2, angle |-> 0]}

NextBounds ==
  \/ \E d \in BDrwPoints : addPoint(d)
  \/ \E d \in BDrwLines : addLine(d)
  \/ \E d \in BDrwArcs : addArc(d)
  \/ \E d \in BDrwCircles : addCircle(d)
  \/ \E d \in BDrwEllipses : addEllipse(d)
  \/ \E d \in BDrwLWPolylines : addLWPolyline(d)
  \/ \E d \in BDrwPolylines : addPolyline(d)
  \/ \E ptr \in BDrwSplines : addSpline(ptr)
  \/ \E d \in BDrwInserts : addInsert(d)
  \/ addTrace(Attr)
  \/ add3dFace(Attr)
  \/ addSolid(Attr)
  \/ \E d \in BDrwTexts : addMText(d)
  \/ \E d \in BDrwTexts : addText(d)
  \/ \E cb \in DimCallbacks, ptr \in BDrwKindOnly : addDim(cb, ptr)
  \/ \E ptr \in BDrwKindOnly : addLeader(ptr)
  \/ \E ptr \in BDrwKindOnly : addHatch(ptr)
  \/ \E ptr \in BDrwKindOnly : addImage(ptr)
  \/ addViewport(Attr)
  \/ \E d \in BDlPoints : Jww_addPoint(d)
  \/ \E d \in BDlLines : Jww_addLine(d)
  \/ \E d \in BDlArcs : Jww_addArc(d)
  \/ \E d \in BDlCircles : Jww_addCircle(d)
  \/ \E d \in BDlEllipses : Jww_addEllipse(d)
  \/ \E d \in BDlPolylines : Jww_addPolyline(d)
  \/ \E d \in BDlPoints : Jww_addVertex(d)
  \/ \E d \in BDlSplines : Jww_addSpline(d)
  \/ \E d \in BDlPoints : Jww_addControlPoint(d)
  \/ \E d \in BDlInserts : Jww_addInsert(d)
  \/ \E d \in BDlTexts : Jww_addMText(d)
  \/ \E d \in BDlTexts : Jww_addText(d)
  \/ \E cb \in DOMAIN JwwKindOnly : Jww_addKindOnly(cb)
  \/ ReadDone
  \/ ReadFail
  \/ Validate

SpecBounds == Init /\ [][NextBounds]_vars

(* ------------------------------------------------------------------ *)
(* Properties of the bounding box (checked under SpecBounds)            *)
(* ------------------------------------------------------------------ *)
AxisInverted ==
  \/ minBound.x > maxBound.x
  \/ minBound.y > maxBound.y
  \/ minBound.z > maxBound.z

BoxContainsXY(px, py) ==
  /\ minBound.x <= px /\ px <= maxBound.x
  /\ minBound.y <= py /\ py <= maxBound.y

\* C4: INVALID_BOUNDS is emitted exactly when the box has min > max on at least
\* one of the three axes, in every document state the reader events can produce.
C4_InvalidBoundsIffInverted ==
  /\ (BoundsCheck(minBound, maxBound) # <<>>) <=> AxisInverted
  /\ Validated =>
       ((\E i \in 1..Len(Issues) :
           Issues[i].code = "INVALID_BOUNDS" /\ Issues[i].severity = LC_SEVERITY_INFO)
        <=> AxisInverted)

\* a validated document with entities whose box was never touched
C4_Witness ==
  /\ Validated
  /\ entities # <<>>
  /\ AxisInverted
  /\ Issues[Len(Issues)].code = "INVALID_BOUNDS"

\* the kinds whose events carry points (section 3's payload table)
GeometryKinds ==
  {LC_ENTITY_POINT, LC_ENTITY_LINE, LC_ENTITY_CIRCLE, LC_ENTITY_ARC,
   LC_ENTITY_ELLIPSE, LC_ENTITY_TEXT, LC_ENTITY_MTEXT, LC_ENTITY_INSERT,
   LC_ENTITY_SOLID, LC_ENTITY_TRACE, LC_ENTITY_3DFACE}

\* C9: a document produced by a read that holds at least one entity with finite
\* geometry has min <= max on every axis.
C9_BoundsValidAfterRead ==
  (phase = "open" /\ \E i \in 1..Len(entities) : entities[i].type \in GeometryKinds)
    => ~AxisInverted

\* C10: in both adapters every CIRCLE or ARC stored makes the box contain
\* (c.x - r, c.y - r) and (c.x + r, c.y + r).
C10_CircleExtendsBounds ==
  \A i \in 1..Len(entities) :
    entities[i].type \in {LC_ENTITY_CIRCLE, LC_ENTITY_ARC} =>
      LET c == entities[i].point1
          r == entities[i].radius
      IN BoxContainsXY(c.x - r, c.y - r) /\ BoxContainsXY(c.x + r, c.y + r)

(* ------------------------------------------------------------------ *)
(* DXF writer: DocumentImpl::writeEntities                              *)
(* Each record is what the callback hands to dxfWriter->write<Kind>.    *)
(* src is the position of the document entity the record was built      *)
(* from; it is bookkeeping for the order properties, not file content.  *)
(* Lengths are in tenths of a drawing unit, so the 2.5 default text     *)
(* height is DefaultTextHeight = 25.                                    *)
(* ------------------------------------------------------------------ *)
DefaultTextHeight == 25

\* a writer that puts every entity on layer "0"
LayerOrZero_always0(e) == "0"

\* e.layer.empty() ? "0" : e.layer
LayerOrZero(e) == IF e.layer = "" THEN "0" ELSE e.layer

\* one iteration of the switch in writeEntities: <<record>>, or <<>> for a kind
\* that falls to "default: break"
DxfRecord(e, i) ==
  CASE e.type = LC_ENTITY_POINT ->
         <<[kind |-> "POINT", src |-> i, layer |-> LayerOrZero(e), color |-> e.color,
            lineType |-> e.lineType, basePoint |-> e.point1]>>
    [] e.type = LC_ENTITY_LINE ->
         <<[kind |-> "LINE", src |-> i, layer |-> LayerOrZero(e), color |-> e.color,
            lineType |-> e.lineType, basePoint |-> e.point1, secPoint |-> e.point2]>>
    [] e.type = LC_ENTITY_CIRCLE ->
         <<[kind |-> "CIRCLE", src |-> i, layer |-> LayerOrZero(e), color |-> e.color,
            lineType |-> e.lineType, basePoint |-> e.point1, radious |-> e.radius]>>
    [] e.type = LC_ENTITY_ARC ->
         <<[kind |-> "ARC", src |-> i, layer |-> LayerOrZero(e), color |-> e.color,
            lineType |-> e.lineType, basePoint |-> e.point1, radious |-> e.radius,
            staangle |-> e.startAngle, endangle |-> e.endAngle]>>
    [] e.type = LC_ENTITY_ELLIPSE ->
         <<[kind |-> "ELLIPSE", src |-> i, layer |-> LayerOrZero(e), color |-> e.color,
            lineType |-> e.lineType, basePoint |-> e.point1, secPoint |-> e.point2,
            ratio |-> e.radius, staparam |-> e.startAngle, endparam |-> e.endAngle]>>
    [] e.type = LC_ENTITY_TEXT ->
         <<[kind |-> "TEXT", src |-> i, layer |-> LayerOrZero(e), color |-> e.color,
            lineType |-> e.lineType, basePoint |-> e.point1, secPoint |-> e.point1,
            text |-> e.text,
            height |-> IF e.height > 0 THEN e.height ELSE DefaultTextHeight,
            angle |-> e.rotation, style |-> "STANDARD"]>>
    [] e.type = LC_ENTITY_MTEXT ->
         <<[kind |-> "MTEXT", src |-> i, layer |-> LayerOrZero(e), color |-> e.color,
            lineType |-> e.lineType, basePoint |-> e.point1, text |-> e.text,
            height |-> IF e.height > 0 THEN e.height ELSE DefaultTextHeight,
            angle |-> e.rotation, style |-> "STANDARD"]>>
    [] e.type = LC_ENTITY_INSERT ->
         <<[kind |-> "INSERT", src |-> i, layer |-> LayerOrZero(e), color |-> e.color,
            lineType |-> e.lineType, name |-> e.blockName, basePoint |-> e.point1,
            xscale |-> e.scaleX, yscale |-> e.scaleY, zscale |-> 1,
            angle |-> e.rotation]>>
    [] e.type = LC_ENTITY_SOLID ->
         <<[kind |-> "SOLID", src |-> i, layer |-> LayerOrZero(e), color |-> e.color,
            basePoint |-> e.point1, secPoint |-> e.point1,
            thirdPoint |-> e.point1, fourPoint |-> e.point1]>>
    [] e.type = LC_ENTITY_TRACE ->
         <<[kind |-> "TRACE", src |-> i, layer |-> LayerOrZero(e), color |-> e.color,
            basePoint |-> e.point1, secPoint |-> e.point1,
            thirdPoint |-> e.point1, fourPoint |-> e.point1]>>
    [] e.type = LC_ENTITY_3DFACE ->
         <<[kind |-> "3DFACE", src |-> i, layer |-> LayerOrZero(e), color |-> e.color,
            basePoint |-> e.point1, secPoint |-> e.point1,
            thirdPoint |-> e.point1, fourPoint |-> e.point1]>>
    [] OTHER -> <<>>

\* the loop "for (const auto& e : entities)" from position i on
RECURSIVE writeEntitiesFrom(_, _)
writeEntitiesFrom(es, i) ==
  IF i > Len(es) THEN <<>> ELSE DxfRecord(es[i], i) \o writeEntitiesFrom(es, i + 1)

writeEntities(es) == writeEntitiesFrom(es, 1)

(* ------------------------------------------------------------------ *)
(* JWW writer: the conversion loop of lc_document_save_jww              *)
(* Angles are in units of pi/180, so 2.0 * M_PI is TwoPi = 360.         *)
(* Not modelled, being products with 0.6, 0.8, 180/pi or values of      *)
(* cos, sin and atan2: CDataMoji's m_end, m_dSizeX and m_degKakudo and  *)
(* the ellipse's m_radKatamukiKaku.                                     *)
(* ------------------------------------------------------------------ *)
TwoPi == 360

\* a cast of the colour index with no range test
PenColor_noClamp(e) == e.color % 65536

\* static_cast<jwWORD>(e.color > 0 && e.color < 10 ? e.color : 1)
PenColor(e) == (IF e.color > 0 /\ e.color < 10 THEN e.color ELSE 1) % 65536

\* a JWW document whose line counter is not reset
JwwEmpty_lineCountKept ==
  [vSen |-> <<>>, vEnko |-> <<>>, vTen |-> <<>>, vMoji |-> <<>>, vSolid |-> <<>>,
   SaveSenCount |-> 1, SaveEnkoCount |-> 0, SaveTenCount |-> 0, SaveMojiCount |-> 0,
   SaveSunpouCount |-> 0, SaveSolidCount |-> 0, SaveBlockCount |-> 0,
   SaveDataListCount |-> 0]

\* an arc angle that wraps at 0 as well, as the ELLIPSE arm does
ArcSweep_wrapAtZero(e) ==
  LET d == e.endAngle - e.startAngle
  IN IF d <= 0 THEN d + TwoPi ELSE d

\* the ARC arm: "arcAngle = e.endAngle - e.startAngle; if (arcAngle < 0) arcAngle += 2.0 * M_PI"
ArcSweep(e) ==
  LET d == e.endAngle - e.startAngle
  IN IF d < 0 THEN d + TwoPi ELSE d

\* JWWDocument's record vectors and section counters after "Initialize counters"
JwwEmpty ==
  [vSen |-> <<>>, vEnko |-> <<>>, vTen |-> <<>>, vMoji |-> <<>>, vSolid |-> <<>>,
   SaveSenCount |-> 0, SaveEnkoCount |-> 0, SaveTenCount |-> 0, SaveMojiCount |-> 0,
   SaveSunpouCount |-> 0, SaveSolidCount |-> 0, SaveBlockCount |-> 0,
   SaveDataListCount |-> 0]

\* one iteration of the switch in lc_document_save_jww, on the JWW document j
JwwConvertOne(j, e, i) ==
  CASE e.type = LC_ENTITY_POINT ->
         [j EXCEPT !.vTen = Append(@,
                      [kind |-> "TEN", src |-> i, m_start |-> [x |-> e.point1.x, y |-> e.point1.y],
                       m_nPenColor |-> PenColor(e)]),
                   !.SaveTenCount = @ + 1]
    [] e.type = LC_ENTITY_LINE ->
         [j EXCEPT !.vSen = Append(@,
                      [kind |-> "SEN", src |-> i, m_start |-> [x |-> e.point1.x, y |-> e.point1.y],
                       m_end |-> [x |-> e.point2.x, y |-> e.point2.y],
                       m_nPenColor |-> PenColor(e)]),
                   !.SaveSenCount = @ + 1]
    [] e.type = LC_ENTITY_CIRCLE ->
         [j EXCEPT !.vEnko = Append(@,
                      [kind |-> "ENKO", src |-> i, m_start |-> [x |-> e.point1.x, y |-> e.point1.y],
                       m_dHankei |-> e.radius, m_radKaishiKaku |-> 0,
                       m_radEnkoKaku |-> TwoPi, m_dHenpeiRitsu |-> 1, m_bZenEnFlg |-> 1,
                       m_nPenColor |-> PenColor(e)]),
                   !.SaveEnkoCount = @ + 1]
    [] e.type = LC_ENTITY_ARC ->
         LET arcAngle == ArcSweep(e)
         IN [j EXCEPT !.vEnko = Append(@,
                      [kind |-> "ENKO", src |-> i, m_start |-> [x |-> e.point1.x, y |-> e.point1.y],
                       m_dHankei |-> e.radius, m_radKaishiKaku |-> e.startAngle,
                       m_radEnkoKaku |-> arcAngle, m_dHenpeiRitsu |-> 1, m_bZenEnFlg |-> 0,
                       m_nPenColor |-> PenColor(e)]),
                   !.SaveEnkoCount = @ + 1]
    [] e.type = LC_ENTITY_ELLIPSE ->
         LET d == e.endAngle - e.startAngle
             arcAngle == IF d <= 0 THEN d + TwoPi ELSE d
         IN [j EXCEPT !.vEnko = Append(@,
                      [kind |-> "ENKO", src |-> i, m_start |-> [x |-> e.point1.x, y |-> e.point1.y],
                       m_dHankei |-> ISqrt(e.point2.x * e.point2.x + e.point2.y * e.point2.y),
                       m_radKaishiKaku |-> e.startAngle,
                       m_radEnkoKaku |-> arcAngle, m_dHenpeiRitsu |-> e.radius,
                       m_bZenEnFlg |-> IF arcAngle >= TwoPi THEN 1 ELSE 0,
                       m_nPenColor |-> PenColor(e)]),
                   !.SaveEnkoCount = @ + 1]
    [] e.type \in {LC_ENTITY_TEXT, LC_ENTITY_MTEXT} ->
         [j EXCEPT !.vMoji = Append(@,
                      [kind |-> "MOJI", src |-> i, m_start |-> [x |-> e.point1.x, y |-> e.point1.y],
                       m_dSizeY |-> IF e.height > 0 THEN e.height ELSE DefaultTextHeight,
                       m_string |-> e.text, m_nPenColor |-> PenColor(e)]),
                   !.SaveMojiCount = @ + 1]
    [] e.type = LC_ENTITY_SOLID ->
         [j EXCEPT !.vSolid = Append(@,
                      [kind |-> "SOLID", src |-> i, m_start |-> [x |-> e.point1.x, y |-> e.point1.y],
                       m_end |-> [x |-> e.point1.x, y |-> e.point1.y],
                       m_DPoint2 |-> [x |-> e.point1.x, y |-> e.point1.y],
                       m_DPoint3 |-> [x |-> e.point1.x, y |-> e.point1.y],
                       m_Color |-> 0, m_nPenColor |-> PenColor(e)]),
                   !.SaveSolidCount = @ + 1]
    [] OTHER -> j

\* "Convert entities to JWW format": the loop from position i on
RECURSIVE JwwConvertFrom(_, _, _)
JwwConvertFrom(j, es, i) ==
  IF i > Len(es) THEN j ELSE JwwConvertFrom(JwwConvertOne(j, es[i], i), es, i + 1)

JwwConvert(es) == JwwConvertFrom(JwwEmpty, es, 1)

\* JWWDocument::Save: the order of the records in the file. The sections come
\* in the fixed order lines, arcs, points, texts, solids (spec section 4.2).
JwwFileOrder(j) == j.vSen \o j.vEnko \o j.vTen \o j.vMoji \o j.vSolid

(* ------------------------------------------------------------------ *)
(* lc_detect_format                                                     *)
(* A filename is a sequence of one-character strings; a const char*     *)
(* argument is <<>> (NULL) or <<fn>>.                                   *)
(* ------------------------------------------------------------------ *)
UpperCase ==
  <<"A", "B", "C", "D", "E", "F", "G", "H", "I", "J", "K", "L", "M",
    "N", "O", "P", "Q", "R", "S", "T", "U", "V", "W", "X", "Y", "Z">>
LowerCase ==
  <<"a", "b", "c", "d", "e", "f", "g", "h", "i", "j", "k", "l", "m",
    "n", "o", "p", "q", "r", "s", "t", "u", "v", "w", "x", "y", "z">>

\* a conversion that leaves every character as it is
tolower_asIs(c) == c

\* std::tolower in the "C" locale
tolower(c) ==
  IF \E i \in 1..Len(UpperCase) : UpperCase[i] = c
    THEN LowerCase[CHOOSE i \in 1..Len(UpperCase) : UpperCase[i] = c]
    ELSE c

lc_detect_format(filename) ==
  IF filename = <<>> THEN LC_FORMAT_UNKNOWN
  ELSE
    LET fn == filename[1]
        dots == {i \in 1..Len(fn) : fn[i] = "."}
    IN IF dots = {} THEN LC_FORMAT_UNKNOWN
       ELSE
         LET dotPos == CHOOSE i \in dots : \A k \in dots : k <= i
             sub == SubSeq(fn, dotPos + 1, Len(fn))
             ext == [i \in 1..Len(sub) |-> tolower(sub[i])]
         IN IF ext = <<"d", "x", "f">> THEN LC_FORMAT_DXF
            ELSE IF ext = <<"d", "w", "g">> THEN LC_FORMAT_DWG
            ELSE IF ext = <<"j", "w", "w">> THEN LC_FORMAT_JWW
            ELSE IF ext = <<"j", "w", "c">> THEN LC_FORMAT_JWC
            ELSE LC_FORMAT_UNKNOWN

(* ------------------------------------------------------------------ *)
(* DXF writer: tables and blocks                                        *)
(* A block name is a sequence of one-character strings wherever the     *)
(* writer is run, because the writer looks at its first character.      *)
(* ------------------------------------------------------------------ *)
lcVersionToDrw(v) ==
  CASE v = LC_DXF_VERSION_R12 -> "AC1009"
    [] v = LC_DXF_VERSION_R14 -> "AC1014"
    [] v = LC_DXF_VERSION_2000 -> "AC1015"
    [] v = LC_DXF_VERSION_2004 -> "AC1018"
    [] v = LC_DXF_VERSION_2007 -> "AC1021"
    [] v = LC_DXF_VERSION_2010 -> "AC1024"
    [] v = LC_DXF_VERSION_2013 -> "AC1027"
    [] v = LC_DXF_VERSION_2018 -> "AC1032"
    [] OTHER -> "AC1021"

\* the DRW_Layer written for a layer of the document
DrwLayerOf(l) ==
  [name |-> l.name, color |-> l.color, lineType |-> l.lineType,
   flags |-> (IF l.off THEN 1 ELSE 0) + (IF l.frozen THEN 2 ELSE 0)
               + (IF l.locked THEN 4 ELSE 0),
   plotF |-> TRUE, lWeight |-> "widthDefault"]

SyntheticLayer0 ==
  [name |-> "0", color |-> 7, lineType |-> "CONTINUOUS", flags |-> 0,
   plotF |-> TRUE, lWeight |-> "widthDefault"]

\* a writer that always starts with its own layer "0"
writeLayers_alwaysSynthetic(ls) ==
  <<SyntheticLayer0>> \o [i \in 1..Len(ls) |-> DrwLayerOf(ls[i])]

\* the calls of dxfWriter->writeLayer, in order
writeLayers(ls) ==
  LET hasLayer0 == \E i \in 1..Len(ls) : ls[i].name = "0"
  IN (IF ~hasLayer0 THEN <<SyntheticLayer0>> ELSE <<>>)
       \o [i \in 1..Len(ls) |-> DrwLayerOf(ls[i])]

\* a skip test that lets reserved names through
SkippedBlock_emptyOnly(b) == Len(b.name) = 0

\* "if (b.name.empty() || b.name[0] == '*') continue;"
SkippedBlock(b) == Len(b.name) = 0 \/ b.name[1] = "*"

ModelSpaceName == <<"*", "M", "o", "d", "e", "l", "_", "S", "p", "a", "c", "e">>
PaperSpaceName == <<"*", "P", "a", "p", "e", "r", "_", "S", "p", "a", "c", "e">>

\* the user blocks of bs from position i on that the writer emits
RECURSIVE UserBlocksFrom(_, _)
UserBlocksFrom(bs, i) ==
  IF i > Len(bs) THEN <<>>
  ELSE (IF SkippedBlock(bs[i]) THEN <<>> ELSE <<bs[i]>>) \o UserBlocksFrom(bs, i + 1)

\* the calls of dxfWriter->writeBlock, in order
writeBlocks(bs) ==
  LET users == UserBlocksFrom(bs, 1)
  IN <<[name |-> ModelSpaceName, basePoint |-> Coord(0, 0, 0), flags |-> 0],
       [name |-> PaperSpaceName, basePoint |-> Coord(0, 0, 0), flags |-> 0]>>
       \o [i \in 1..Len(users) |->
             [name |-> users[i].name, basePoint |-> users[i].basePoint, flags |-> 0]]

\* the calls of dxfWriter->writeBlockRecord, in order
writeBlockRecords(bs) ==
  LET users == UserBlocksFrom(bs, 1)
  IN <<ModelSpaceName, PaperSpaceName>> \o [i \in 1..Len(users) |-> users[i].name]

\* what dxf.write has DocumentImpl emit besides the entities
DxfTables(version) ==
  [version |-> lcVersionToDrw(version),
   layers |-> writeLayers(layers),
   blockRecords |-> writeBlockRecords(blocks),
   blocks |-> writeBlocks(blocks)]

NoTables == [version |-> "", layers |-> <<>>, blockRecords |-> <<>>, blocks |-> <<>>]

(* ------------------------------------------------------------------ *)
(* lc_document_save and lc_document_save_jww                            *)
(* ------------------------------------------------------------------ *)
\* what a save left behind: its return code and, when it succeeded, the records
\* of the file (dxfEntities for a DXF target, jww for a JWW target)
SaveOutcome(err, target, tables, dxfRecs, j) ==
  [err |-> err, target |-> target, dxf |-> tables, dxfEntities |-> dxfRecs, jww |-> j]

SaveFailed(err, target) == SaveOutcome(err, target, NoTables, <<>>, JwwEmpty)

\* lc_document_save on the open document. filename is <<>> (NULL) or <<fn>>;
\* io is what the output library reports: "ok", "open_fail" (JWW: the output
\* stream is not good) or "write_fail" (dxf.write / jwwDoc.Save returned false)
lc_document_save(filename, version, io) ==
  /\ phase = "open"
  /\ LET outFormat == lc_detect_format(filename)
     IN
     IF filename = <<>>
       THEN /\ written' = <<SaveFailed(LC_ERR_INVALID_ARGUMENT, outFormat)>>
            /\ g_last_error' = "Invalid arguments"
     ELSE IF outFormat = LC_FORMAT_DXF
       THEN IF io = "ok"
              THEN /\ written' = <<SaveOutcome(LC_OK, outFormat, DxfTables(version),
                                               writeEntities(entities), JwwEmpty)>>
                   /\ UNCHANGED g_last_error
              ELSE /\ written' = <<SaveFailed(LC_ERR_WRITE_ERROR, outFormat)>>
                   /\ g_last_error' = "Failed to write DXF file"
     ELSE IF outFormat = LC_FORMAT_JWW
       THEN IF io = "open_fail"
              THEN /\ written' = <<SaveFailed(LC_ERR_WRITE_ERROR, outFormat)>>
                   /\ g_last_error' = "Failed to open JWW file for writing"
            ELSE IF io = "write_fail"
              THEN /\ written' = <<SaveFailed(LC_ERR_WRITE_ERROR, outFormat)>>
                   /\ g_last_error' = "Failed to save JWW file"
              ELSE /\ written' = <<SaveOutcome(LC_OK, outFormat, NoTables, <<>>,
                                               JwwConvert(entities))>>
                   /\ UNCHANGED g_last_error
     ELSE /\ written' = <<SaveFailed(LC_ERR_INVALID_FORMAT, outFormat)>>
          /\ g_last_error' = "Unsupported output format"
  /\ dxfWriter' = IF filename # <<>> /\ lc_detect_format(filename) = LC_FORMAT_DXF
                    THEN <<>> ELSE dxfWriter
  /\ UNCHANGED <<format, phase, lastEvent, arrived, docVars, result, info, detected, conv>>

(* ------------------------------------------------------------------ *)
(* lc_document_get_info                                                 *)
(* ------------------------------------------------------------------ *)
\* the geometry arm filled at LC_DETAIL_FULL; [] for a kind the switch skips
InfoGeometry(e) ==
  CASE e.type = LC_ENTITY_POINT -> [point |-> e.point1]
    [] e.type = LC_ENTITY_LINE -> [start |-> e.point1, end |-> e.point2]
    [] e.type = LC_ENTITY_CIRCLE -> [center |-> e.point1, radius |-> e.radius]
    [] e.type = LC_ENTITY_ARC ->
         [center |-> e.point1, radius |-> e.radius,
          start_angle |-> e.startAngle, end_angle |-> e.endAngle]
    [] e.type \in {LC_ENTITY_TEXT, LC_ENTITY_MTEXT} ->
         [text |-> e.text, position |-> e.point1, height |-> e.height,
          rotation |-> e.rotation]
    [] e.type = LC_ENTITY_INSERT ->
         [block_name |-> e.blockName, position |-> e.point1, scale_x |-> e.scaleX,
          scale_y |-> e.scaleY, rotation |-> e.rotation]
    [] e.type \in {LC_ENTITY_POLYLINE, LC_ENTITY_LWPOLYLINE} ->
         [vertex_count |-> e.vertexCount, is_closed |-> IF e.closed THEN 1 ELSE 0]
    [] e.type = LC_ENTITY_SPLINE ->
         [control_point_count |-> e.vertexCount, degree |-> e.degree,
          is_closed |-> IF e.closed THEN 1 ELSE 0]
    [] OTHER -> [none |-> 0]

\* a loop that stops one entity short of the end
EntityCounts_skipLast(es) ==
  [t \in 0..19 |-> Cardinality({i \in 1..(Len(es) - 1) : es[i].type = t})]

\* "Entity type counts": entity_counts[20] zeroed, then one increment per entity
\* whose type is below 20
EntityCounts(es) ==
  [t \in 0..19 |-> Cardinality({i \in 1..Len(es) : es[i].type < 20 /\ es[i].type = t})]

\* the entity list only above LC_DETAIL_VERBOSE
lc_document_get_info_fullOnly(detail) ==
  [layer_count |-> Len(layers),
   block_count |-> Len(blocks),
   entity_count |-> Len(entities),
   bounds |-> [min |-> minBound, max |-> maxBound],
   entity_counts |-> EntityCounts(entities),
   layers |->
     IF detail >= LC_DETAIL_NORMAL
       THEN [i \in 1..Len(layers) |->
               [name |-> layers[i].name, color |-> layers[i].color,
                line_type |-> layers[i].lineType, line_weight |-> layers[i].lineWeight,
                is_off |-> IF layers[i].off THEN 1 ELSE 0,
                is_frozen |-> IF layers[i].frozen THEN 1 ELSE 0,
                is_locked |-> IF layers[i].locked THEN 1 ELSE 0]]
       ELSE <<>>,
   blocks |->
     IF detail >= LC_DETAIL_NORMAL
       THEN [i \in 1..Len(blocks) |->
               [name |-> blocks[i].name, base_point |-> blocks[i].basePoint,
                entity_count |-> Len(blocks[i].entities)]]
       ELSE <<>>,
   entities |->
     IF detail > LC_DETAIL_VERBOSE
       THEN [i \in 1..Len(entities) |->
               [type |-> entities[i].type, layer |-> entities[i].layer,
                color |-> entities[i].color, line_type |-> entities[i].lineType,
                line_weight |-> entities[i].lineWeight, handle |-> entities[i].handle,
                data |-> IF detail >= LC_DETAIL_FULL
                           THEN InfoGeometry(entities[i])
                           ELSE [none |-> 0]]]
       ELSE <<>>]

lc_document_get_info(detail) ==
  [layer_count |-> Len(layers),
   block_count |-> Len(blocks),
   entity_count |-> Len(entities),
   bounds |-> [min |-> minBound, max |-> maxBound],
   entity_counts |-> EntityCounts(entities),
   layers |->
     IF detail >= LC_DETAIL_NORMAL
       THEN [i \in 1..Len(layers) |->
               [name |-> layers[i].name, color |-> layers[i].color,
                line_type |-> layers[i].lineType, line_weight |-> layers[i].lineWeight,
                is_off |-> IF layers[i].off THEN 1 ELSE 0,
                is_frozen |-> IF layers[i].frozen THEN 1 ELSE 0,
                is_locked |-> IF layers[i].locked THEN 1 ELSE 0]]
       ELSE <<>>,
   blocks |->
     IF detail >= LC_DETAIL_NORMAL
       THEN [i \in 1..Len(blocks) |->
               [name |-> blocks[i].name, base_point |-> blocks[i].basePoint,
                entity_count |-> Len(blocks[i].entities)]]
       ELSE <<>>,
   entities |->
     IF detail >= LC_DETAIL_VERBOSE
       THEN [i \in 1..Len(entities) |->
               [type |-> entities[i].type, layer |-> entities[i].layer,
                color |-> entities[i].color, line_type |-> entities[i].lineType,
                line_weight |-> entities[i].lineWeight, handle |-> entities[i].handle,
                data |-> IF detail >= LC_DETAIL_FULL
                           THEN InfoGeometry(entities[i])
                           ELSE [none |-> 0]]]
       ELSE <<>>]

\* a caller that holds the open document asks for a report
\* a projection that clears the last-error message
GetInfo_clearsError(detail) ==
  /\ phase = "open"
  /\ info' = <<lc_document_get_info(detail)>>
  /\ g_last_error' = ""
  /\ UNCHANGED <<format, phase, lastEvent, arrived, docVars, result, written, detected,
                 dxfWriter, conv>>

\* a caller that holds the open document asks for its LcFileInfo
GetInfo(detail) ==
  /\ phase = "open"
  /\ info' = <<lc_document_get_info(detail)>>
  /\ UNCHANGED <<format, phase, lastEvent, arrived, docVars, g_last_error, result, written, detected, dxfWriter, conv>>

(* ------------------------------------------------------------------ *)
(* Specification SpecWrite: read, then validate, project and save       *)
(* ------------------------------------------------------------------ *)
WDrwPoints ==
  {[layer |-> "0", color |-> 3, lineType |-> "BYLAYER", handle |-> 0,
    basePoint |-> p] : p \in BPts}
WDrwLines ==
  {[layer |-> "", color |-> 256, lineType |-> "BYLAYER", handle |-> 0,
    basePoint |-> p, secPoint |-> P2] : p \in BPts}
WDrwCircles ==
  {[layer |-> "0", color |-> 256, lineType |-> "BYLAYER", handle |-> 0,
    basePoint |-> P1, radious |-> r] : r \in RefRadii}
WDrwTexts ==
  {[layer |-> "0", color |-> 256, lineType |-> "BYLAYER", handle |-> 0,
    text |-> "Hi", basePoint |-> P0, height |-> 25, angle |-> 0]}
WDrwKindOnly == {<<[layer |-> "0", color |-> 256, handle |-> 0]>>}

SaveTargets ==
  {<< <<"a", ".", "d", "x", "f">> >>, << <<"a", ".", "j", "w", "w">> >>,
   << <<"a", ".", "t", "x", "t">> >>}
IoOutcomes == {"ok", "open_fail", "write_fail"}
DetailLevels == {LC_DETAIL_SUMMARY, LC_DETAIL_NORMAL, LC_DETAIL_VERBOSE, LC_DETAIL_FULL}

NextWrite ==
  \/ \E d \in WDrwPoints : addPoint(d)
  \/ \E d \in WDrwLines : addLine(d)
  \/ \E d \in WDrwCircles : addCircle(d)
  \/ \E d \in WDrwTexts : addText(d)
  \/ addSolid(Attr)
  \/ \E ptr \in WDrwKindOnly : addHatch(ptr)
  \/ \E d \in BDlPoints : Jww_addPoint(d)
  \/ \E d \in BDlLines : Jww_addLine(d)
  \/ \E d \in DlCircles : Jww_addCircle(d)
  \/ \E d \in BDlTexts : Jww_addText(d)
  \/ \E cb \in {"addSolid", "addHatch"} : Jww_addKindOnly(cb)
  \/ ReadDone
  \/ ReadFail
  \/ Validate
  \/ \E detail \in DetailLevels : GetInfo(detail)
  \/ \E filename \in SaveTargets, io \in IoOutcomes :
       lc_document_save(filename, LC_DXF_VERSION_2007, io)

SpecWrite == Init /\ [][NextWrite]_vars

(* ------------------------------------------------------------------ *)
(* Entity order, checked under SpecWrite                                *)
(* ------------------------------------------------------------------ *)
\* src is the document position a written record was converted from
InDocumentOrder(recs) ==
  \A a, b \in 1..Len(recs) : a < b => recs[a].src < recs[b].src

\* the entity positions named by the entity issues, in issue order
IssuePositions ==
  [k \in 1..Len(Issues) |->
     {n \in 0..(Len(entities) - 1) : Issues[k].location = EntityLocation(n)}]

ReaderKeepsArrivalOrder == entities = arrived

ValidatorVisitsInOrder ==
  Validated =>
    \A a, b \in 1..Len(Issues) :
      a < b => \A m \in IssuePositions[a], n \in IssuePositions[b] : m <= n

ProjectorVisitsInOrder ==
  (info # <<>> /\ info[1].entities # <<>>) =>
    /\ Len(info[1].entities) = Len(entities)
    /\ \A i \in 1..Len(entities) :
         /\ info[1].entities[i].type = entities[i].type
         /\ info[1].entities[i].layer = entities[i].layer
         /\ info[1].entities[i].color = entities[i].color

SavedAs(target) ==
  /\ written # <<>>
  /\ written[1].err = LC_OK
  /\ written[1].target = target

DxfWriterInOrder ==
  SavedAs(LC_FORMAT_DXF) => InDocumentOrder(written[1].dxfEntities)

\* C8 (as amended): the reader stores entities in arrival order, the validator
\* and the info projector visit them in document order, the DXF writer emits
\* the entities it writes in document order, and the JWW writer keeps document
\* order within each of its sections (lines, arcs, points, texts, solids).
C8_OrderKeptWithinSections ==
  /\ ReaderKeepsArrivalOrder
  /\ ValidatorVisitsInOrder
  /\ ProjectorVisitsInOrder
  /\ DxfWriterInOrder
  /\ SavedAs(LC_FORMAT_JWW) =>
       /\ InDocumentOrder(written[1].jww.vSen)
       /\ InDocumentOrder(written[1].jww.vEnko)
       /\ InDocumentOrder(written[1].jww.vTen)
       /\ InDocumentOrder(written[1].jww.vMoji)
       /\ InDocumentOrder(written[1].jww.vSolid)

\* two different circles read, validated with an issue on each, projected in
\* full and saved as JWW: both land in the arc section
C8_Witness ==
  /\ SavedAs(LC_FORMAT_JWW)
  /\ Len(written[1].jww.vEnko) = 2
  /\ entities[1] # entities[2]
  /\ Validated
  /\ \E a, b \in 1..Len(Issues) : 0 \in IssuePositions[a] /\ 1 \in IssuePositions[b]
  /\ info # <<>> /\ Len(info[1].entities) = 2

\* C8 (as stated): every writer, JWW included, emits the document's entities in
\* document order: a before b in the document means a before b in the file.
C8_OrderKeptEndToEnd ==
  /\ ReaderKeepsArrivalOrder
  /\ ValidatorVisitsInOrder
  /\ ProjectorVisitsInOrder
  /\ DxfWriterInOrder
  /\ SavedAs(LC_FORMAT_JWW) => InDocumentOrder(JwwFileOrder(written[1].jww))

(* ------------------------------------------------------------------ *)
(* The report of lc_document_get_info, checked under SpecWrite          *)
(* ------------------------------------------------------------------ *)
RECURSIVE SumCountsFrom(_, _)
SumCountsFrom(counts, t) ==
  IF t > 19 THEN 0 ELSE counts[t] + SumCountsFrom(counts, t + 1)

Projected == info # <<>>

\* C11: the per-kind entity counts of a report sum to the number of entities
\* of the document, which is also the report's entity_count.
C11_CountsSumToEntityCount ==
  Projected =>
    /\ SumCountsFrom(info[1].entity_counts, 0) = Len(entities)
    /\ info[1].entity_count = Len(entities)

\* a report on a document that holds two entities of different kinds
C11_Witness ==
  /\ Projected
  /\ Len(entities) = 2
  /\ entities[1].type # entities[2].type
  /\ info[1].entity_counts[entities[1].type] = 1
  /\ info[1].entity_counts[entities[2].type] = 1

\* the entry of the report that describes entity e
EntityEntry(e, detail) ==
  [type |-> e.type, layer |-> e.layer, color |-> e.color, line_type |-> e.lineType,
   line_weight |-> e.lineWeight, handle |-> e.handle,
   data |-> IF detail >= LC_DETAIL_FULL THEN InfoGeometry(e) ELSE [none |-> 0]]

\* C12: the entities list of a report has one entry per entity of the document
\* at Verbose and Full, entry i describing the i-th entity, and is empty at
\* Summary and Normal.
C12_EntityListByLevel ==
  [][\A detail \in DetailLevels :
       GetInfo(detail) =>
         IF detail \in {LC_DETAIL_VERBOSE, LC_DETAIL_FULL}
           THEN /\ Len(info'[1].entities) = Len(entities)
                /\ \A i \in 1..Len(entities) :
                     info'[1].entities[i] = EntityEntry(entities[i], detail)
           ELSE Len(info'[1].entities) = 0]_vars

\* a Verbose or Full report listing two different entities
C12_Witness ==
  /\ Projected
  /\ Len(entities) = 2
  /\ Len(info[1].entities) = 2
  /\ info[1].entities[1] # info[1].entities[2]

(* ------------------------------------------------------------------ *)
(* lc_document_open; lc_detect_format as a call of its own              *)
(* ------------------------------------------------------------------ *)
\* a caller asks for the format of a filename
DetectFormat(filename) ==
  /\ detected' = <<[filename |-> filename, format |-> lc_detect_format(filename)]>>
  /\ UNCHANGED <<format, phase, lastEvent, arrived, docVars, g_last_error, result,
                 written, info, dxfWriter, conv>>

\* std::string(filename), the characters joined
RECURSIVE CString(_)
CString(fn) == IF fn = <<>> THEN "" ELSE Head(fn) \o CString(Tail(fn))

\* before lc_document_open is called: no document, no adapter chosen
InitOpen ==
  /\ format = "none"
  /\ phase = "idle"
  /\ lastEvent = "none"
  /\ arrived = <<>>
  /\ layers = <<>>
  /\ blocks = <<>>
  /\ currentBlock = NoBlock
  /\ entities = <<>>
  /\ minBound = Coord(BoundSentinel, BoundSentinel, BoundSentinel)
  /\ maxBound = Coord(-BoundSentinel, -BoundSentinel, -BoundSentinel)
  /\ g_last_error = ""
  /\ result = <<>>
  /\ written = <<>>
  /\ info = <<>>
  /\ detected = <<>>
  /\ dxfWriter = <<>>
  /\ conv = NoCall

\* a failure that returns nullptr without a message
OpenRefused_noMessage(msg) ==
  /\ phase' = "failed"
  /\ UNCHANGED <<format, lastEvent, arrived, docVars, g_last_error>>

\* "g_last_error = msg; return nullptr;" before any callback has run
OpenRefused(msg) ==
  /\ phase' = "failed"
  /\ g_last_error' = msg
  /\ UNCHANGED <<format, lastEvent, arrived, docVars>>

\* lc_document_open up to the call of the parser; exists is what
\* std::ifstream(filename).good() reports. The callbacks, ReadDone and ReadFail
\* are the rest of the call.
lc_document_open(filename, exists) ==
  /\ phase = "idle"
  /\ IF filename = <<>> THEN OpenRefused("Filename is null")
     ELSE IF ~exists THEN OpenRefused("File not found: " \o CString(filename[1]))
     ELSE
       LET fmt == lc_detect_format(filename)
       IN IF fmt \in {LC_FORMAT_DXF, LC_FORMAT_DWG}
            THEN /\ phase' = "reading"
                 /\ format' = "DXF"
                 /\ UNCHANGED <<lastEvent, arrived, docVars, g_last_error>>
          ELSE IF fmt \in {LC_FORMAT_JWW, LC_FORMAT_JWC}
            THEN /\ phase' = "reading"
                 /\ format' = "JWW"
                 /\ UNCHANGED <<lastEvent, arrived, docVars, g_last_error>>
          ELSE OpenRefused("Unsupported file format")
  /\ UNCHANGED <<result, written, info, detected, dxfWriter, conv>>

(* ------------------------------------------------------------------ *)
(* Specification SpecOpen: format detection and the whole of an open    *)
(* ------------------------------------------------------------------ *)
Filenames ==
  { <<"a">>,
    <<"a", ".">>,
    <<"d", "x", "f">>,
    <<".", "d", "x", "f">>,
    <<"a", ".", "d", "x", "f">>,
    <<"a", ".", "D", "X", "F">>,
    <<"a", ".", "D", "x", "f">>,
    <<"a", ".", "d", "w", "g">>,
    <<"a", ".", "D", "w", "G">>,
    <<"a", ".", "j", "w", "w">>,
    <<"a", ".", "J", "W", "W">>,
    <<"a", ".", "j", "w", "c">>,
    <<"a", ".", "j", "W", "C">>,
    <<"a", ".", "t", "x", "t">>,
    <<"a", ".", "d", "x">>,
    <<"a", ".", "d", "x", "f", "x">>,
    <<"a", ".", "d", "x", "f", ".", "b">>,
    <<"a", ".", "b", ".", "j", "w", "w">>,
    <<"a", ".", "d", "x", "f", "/", "b">>,
    <<"a", ".", "j", "w", "w", ".">> }

FilenameArgs == {<<>>} \cup {<<fn>> : fn \in Filenames}

NextOpen ==
  \/ \E filename \in FilenameArgs : DetectFormat(filename)
  \/ \E filename \in FilenameArgs, exists \in BOOLEAN : lc_document_open(filename, exists)
  \/ \E d \in DrwLayers : addLayer(d)
  \/ \E d \in BDrwLines : addLine(d)
  \/ \E d \in DlLayers : Jww_addLayer(d)
  \/ \E d \in BDlLines : Jww_addLine(d)
  \/ ReadDone
  \/ ReadFail

SpecOpen == InitOpen /\ [][NextOpen]_vars

(* ------------------------------------------------------------------ *)
(* Failing opens and format detection, checked under SpecOpen           *)
(* ------------------------------------------------------------------ *)
\* C13: an open that has failed (null filename, missing file, unrecognised
\* extension or reader failure) has returned NULL with a non-empty last-error
\* message, and nothing of an in-progress document is left.
C13_FailedOpenLeavesNothing ==
  phase = "failed" =>
    /\ g_last_error # ""
    /\ layers = <<>> /\ blocks = <<>> /\ entities = <<>>
    /\ currentBlock = NoBlock

\* the JWW parser reported failure after the open had got as far as reading
C13_Witness ==
  /\ phase = "failed"
  /\ lastEvent = "error"
  /\ g_last_error = "Failed to read JWW file"

\* s equals the lower-case word w when case is ignored
SameIgnoringCase(s, w) ==
  /\ Len(s) = Len(w)
  /\ \A i \in 1..Len(w) :
       \E k \in 1..Len(LowerCase) :
         w[i] = LowerCase[k] /\ s[i] \in {LowerCase[k], UpperCase[k]}

\* the text after the last '.' of fn is s
IsExtension(fn, s) ==
  \E pre \in {SubSeq(fn, 1, n) : n \in 0..Len(fn)} :
    /\ fn = pre \o <<".">> \o s
    /\ \A i \in 1..Len(s) : s[i] # "."

HasExtension(filename, w) ==
  /\ filename # <<>>
  /\ \E n \in 0..Len(filename[1]) :
       LET s == SubSeq(filename[1], Len(filename[1]) - n + 1, Len(filename[1]))
       IN IsExtension(filename[1], s) /\ SameIgnoringCase(s, w)

\* C17: lc_detect_format answers from the text after the last '.' compared
\* without regard to case: dxf, dwg, jww and jwc give their tags, anything
\* else (no dot, another extension, NULL) gives LC_FORMAT_UNKNOWN.
C17_DetectByExtension ==
  detected # <<>> =>
    LET f == detected[1].filename
        r == detected[1].format
    IN /\ HasExtension(f, <<"d", "x", "f">>) => r = LC_FORMAT_DXF
       /\ HasExtension(f, <<"d", "w", "g">>) => r = LC_FORMAT_DWG
       /\ HasExtension(f, <<"j", "w", "w">>) => r = LC_FORMAT_JWW
       /\ HasExtension(f, <<"j", "w", "c">>) => r = LC_FORMAT_JWC
       /\ (~ \E w \in {<<"d", "x", "f">>, <<"d", "w", "g">>, <<"j", "w", "w">>,
                       <<"j", "w", "c">>} : HasExtension(f, w))
            => r = LC_FORMAT_UNKNOWN

\* a mixed-case extension was recognised
C17_Witness ==
  /\ detected # <<>>
  /\ detected[1].filename = << <<"a", ".", "D", "w", "G">> >>
  /\ detected[1].format = LC_FORMAT_DWG

(* ------------------------------------------------------------------ *)
(* Specification SpecEmit: documents with layers, blocks and references *)
(* that break the semantic rules, read and then saved                   *)
(* ------------------------------------------------------------------ *)
EDrwLayers ==
  {[name |-> "0", color |-> 7, lineType |-> "CONTINUOUS", lWeight |-> 0, flags |-> 0],
   [name |-> "X", color |-> 3, lineType |-> "DASHED", lWeight |-> 0, flags |-> 5]}
EBlockNames == {<<"B">>, <<"*", "U">>}
EDrwBlocks == {[name |-> n, basePoint |-> P1] : n \in EBlockNames}
EDrwInserts ==
  {[layer |-> "0", color |-> 256, lineType |-> "BYLAYER", handle |-> 0,
    name |-> n, basePoint |-> P0, xscale |-> 1, yscale |-> 1, angle |-> 0] :
     n \in {<<"B">>, <<"Z">>}}
EDrwCircles ==
  {[layer |-> "U", color |-> 256, lineType |-> "BYLAYER", handle |-> 0,
    basePoint |-> P1, radious |-> 0]}
EDrwArcs ==
  {[layer |-> "0", color |-> 256, lineType |-> "BYLAYER", handle |-> 0,
    basePoint |-> P1, radious |-> -1, staangle |-> 0, endangle |-> 90]}
EDlCircles == {[cx |-> 3, cy |-> -2, cz |-> 1, radius |-> 0]}

EmitNames == {<<>>} \cup SaveTargets
\* one generation of the enum and one number that is none of them
EmitVersions == {LC_DXF_VERSION_R12, 13}

NextEmit ==
  \/ \E d \in EDrwLayers : addLayer(d)
  \/ \E d \in EDrwBlocks : addBlock(d)
  \/ endBlock
  \/ \E d \in EDrwInserts : addInsert(d)
  \/ \E d \in EDrwCircles : addCircle(d)
  \/ \E d \in EDrwArcs : addArc(d)
  \/ \E d \in DlLayers : Jww_addLayer(d)
  \/ \E d \in EDlCircles : Jww_addCircle(d)
  \/ ReadDone
  \/ ReadFail
  \/ \E filename \in EmitNames, version \in EmitVersions, io \in IoOutcomes :
       lc_document_save(filename, version, io)

SpecEmit == Init /\ [][NextEmit]_vars

(* ------------------------------------------------------------------ *)
(* Semantic violations and the DXF tables, checked under SpecEmit       *)
(* ------------------------------------------------------------------ *)
Saved == written # <<>>

BlockNamesOf(bs) == {bs[i].name : i \in 1..Len(bs)}

\* entity e is an INSERT naming no block of the document
BrokenInsert(e) ==
  e.type = LC_ENTITY_INSERT /\ e.blockName \notin BlockNamesOf(blocks)

BadRadius(e) == e.type \in {LC_ENTITY_CIRCLE, LC_ENTITY_ARC} /\ e.radius <= 0

UndefinedLayerRef(e) ==
  e.layer # "" /\ e.layer \notin {layers[i].name : i \in 1..Len(layers)}

\* the callback stored one more entity and the read goes on
StoredOneMore ==
  /\ Len(entities') = Len(entities) + 1
  /\ SubSeq(entities', 1, Len(entities)) = entities
  /\ phase' = "reading"
  /\ g_last_error' = g_last_error

\* C14: an entity event that breaks a semantic rule (undefined layer, INSERT of
\* an undefined block, CIRCLE or ARC with radius <= 0) is stored like any other
\* and the read goes on; a save whose output library reports no failure returns
\* LC_OK whatever the document holds.
C14_SemanticViolationsNeverFail ==
  [][/\ \A d \in EDrwCircles : addCircle(d) =>
          StoredOneMore /\ entities'[Len(entities')].radius = d.radious
     /\ \A d \in EDrwArcs : addArc(d) =>
          StoredOneMore /\ entities'[Len(entities')].radius = d.radious
     /\ \A d \in EDrwInserts : addInsert(d) =>
          StoredOneMore /\ entities'[Len(entities')].blockName = d.name
     /\ \A d \in EDlCircles : Jww_addCircle(d) =>
          StoredOneMore /\ entities'[Len(entities')].radius = d.radius
     /\ \A filename \in SaveTargets, version \in EmitVersions :
          (lc_document_save(filename, version, "ok")
             /\ lc_detect_format(filename) \in {LC_FORMAT_DXF, LC_FORMAT_JWW})
            => written'[1].err = LC_OK]_vars

\* a document with a zero-radius circle on an undefined layer and an INSERT of
\* an undefined block was read and saved without error
C14_Witness ==
  /\ Saved /\ written[1].err = LC_OK
  /\ \E i \in 1..Len(entities) : BadRadius(entities[i]) /\ UndefinedLayerRef(entities[i])
  /\ \E i \in 1..Len(entities) : BrokenInsert(entities[i])

\* C15: a save of a document holding an INSERT whose blockName names no block
\* of the document fails (BrokenReference) instead of emitting the INSERT.
C15_BrokenReferenceFailsWrite ==
  (Saved /\ \E i \in 1..Len(entities) : BrokenInsert(entities[i])) =>
    /\ written[1].err # LC_OK
    /\ \A k \in 1..Len(written[1].dxfEntities) : written[1].dxfEntities[k].kind # "INSERT"

AcceptedVersions ==
  {LC_DXF_VERSION_R12, LC_DXF_VERSION_R14, LC_DXF_VERSION_2000, LC_DXF_VERSION_2004,
   LC_DXF_VERSION_2007, LC_DXF_VERSION_2010, LC_DXF_VERSION_2013, LC_DXF_VERSION_2018}

\* C16: a save to DXF with a generation outside {12, 14, 2000, 2004, 2007, 2010,
\* 2013, 2018} fails with UnsupportedVersion.
C16_UnsupportedVersionFails ==
  [][\A filename \in SaveTargets, version \in EmitVersions \ AcceptedVersions,
        io \in IoOutcomes :
       (lc_document_save(filename, version, io)
          /\ lc_detect_format(filename) = LC_FORMAT_DXF)
         => written'[1].err = LC_ERR_UNSUPPORTED_VERSION]_vars

SavedDxf == Saved /\ written[1].err = LC_OK /\ written[1].target = LC_FORMAT_DXF

NamesOf(recs) == [i \in 1..Len(recs) |-> recs[i].name]

\* C18: the layers a DXF save emits always hold a layer "0": with no layer "0"
\* in the document a synthetic one (colour 7, CONTINUOUS, no flags) comes first
\* and the document's layers follow; with one, the document's layers alone.
C18_Layer0AlwaysEmitted ==
  SavedDxf =>
    LET out == written[1].dxf.layers
        docHas0 == \E i \in 1..Len(layers) : layers[i].name = "0"
    IN /\ \E k \in 1..Len(out) : out[k].name = "0"
       /\ IF docHas0
            THEN NamesOf(out) = NamesOf(layers)
            ELSE /\ out[1].name = "0" /\ out[1].color = 7
                 /\ out[1].lineType = "CONTINUOUS" /\ out[1].flags = 0
                 /\ NamesOf(Tail(out)) = NamesOf(layers)

\* a document whose only layer is "X" was saved: the synthetic "0", then "X"
C18_Witness ==
  /\ SavedDxf
  /\ NamesOf(layers) = <<"X">>
  /\ NamesOf(written[1].dxf.layers) = <<"0", "X">>

Reserved(name) == Len(name) > 0 /\ name[1] = "*"

\* C19: a DXF save emits the blocks *Model_Space and *Paper_Space first, once
\* each, and likewise their block records; no block of the document whose name
\* begins with '*' is emitted after them.
C19_ReservedBlocksOnce ==
  SavedDxf =>
    LET bl == NamesOf(written[1].dxf.blocks)
        br == written[1].dxf.blockRecords
    IN /\ Len(bl) >= 2 /\ bl[1] = ModelSpaceName /\ bl[2] = PaperSpaceName
       /\ \A k \in 3..Len(bl) : ~Reserved(bl[k])
       /\ Len(br) >= 2 /\ br[1] = ModelSpaceName /\ br[2] = PaperSpaceName
       /\ \A k \in 3..Len(br) : ~Reserved(br[k])

\* a document with the blocks "*U" and "B" was saved: "B" alone follows the two
\* reserved blocks
C19_Witness ==
  /\ SavedDxf
  /\ NamesOf(blocks) = << <<"*", "U">>, <<"B">> >>
  /\ NamesOf(written[1].dxf.blocks) = <<ModelSpaceName, PaperSpaceName, <<"B">> >>
  /\ written[1].dxf.blockRecords = <<ModelSpaceName, PaperSpaceName, <<"B">> >>

(* ------------------------------------------------------------------ *)
(* Specification SpecKinds: every entity kind the writers have no arm   *)
(* for, read and then saved                                             *)
(* ------------------------------------------------------------------ *)
KDrwLWPolylines ==
  {[layer |-> "0", color |-> 256, lineType |-> "BYLAYER", handle |-> 0,
    flags |-> 1, vertlist |-> <<[x |-> 5, y |-> 6]>>]}
KDrwPolylines ==
  {[layer |-> "0", color |-> 256, lineType |-> "BYLAYER", handle |-> 0,
    flags |-> 0, vertlist |-> <<[basePoint |-> P2]>>]}
KDrwSplines ==
  {<<[layer |-> "0", color |-> 256, lineType |-> "BYLAYER", handle |-> 0,
      flags |-> 0, degree |-> 3, controllist |-> <<P2>>]>>}
KDrwKindOnly == {<<[layer |-> "0", color |-> 256, handle |-> 0]>>}

NextKinds ==
  \/ \E d \in WDrwLines : addLine(d)
  \/ \E d \in KDrwLWPolylines : addLWPolyline(d)
  \/ \E d \in KDrwPolylines : addPolyline(d)
  \/ \E ptr \in KDrwSplines : addSpline(ptr)
  \/ \E ptr \in KDrwKindOnly : addDim("addDimLinear", ptr)
  \/ \E ptr \in KDrwKindOnly : addLeader(ptr)
  \/ \E ptr \in KDrwKindOnly : addHatch(ptr)
  \/ \E ptr \in KDrwKindOnly : addImage(ptr)
  \/ addViewport(Attr)
  \/ \E d \in BDlPolylines : Jww_addPolyline(d)
  \/ \E d \in BDlSplines : Jww_addSpline(d)
  \/ \E cb \in {"addDimLinear", "addLeader", "addHatch", "addImage"} : Jww_addKindOnly(cb)
  \/ ReadDone
  \/ ReadFail
  \/ \E filename \in SaveTargets, io \in IoOutcomes :
       lc_document_save(filename, LC_DXF_VERSION_2007, io)

SpecKinds == Init /\ [][NextKinds]_vars

PlaceholderKinds ==
  {LC_ENTITY_POLYLINE, LC_ENTITY_LWPOLYLINE, LC_ENTITY_SPLINE, LC_ENTITY_DIMENSION,
   LC_ENTITY_LEADER, LC_ENTITY_HATCH, LC_ENTITY_IMAGE, LC_ENTITY_VIEWPORT}

RecordsOf(recs) == {recs[k] : k \in 1..Len(recs)}

\* the records a successful save wrote, whatever the target
WrittenRecords ==
  IF written[1].target = LC_FORMAT_DXF
    THEN RecordsOf(written[1].dxfEntities)
    ELSE RecordsOf(written[1].jww.vSen) \cup RecordsOf(written[1].jww.vEnko)
           \cup RecordsOf(written[1].jww.vTen) \cup RecordsOf(written[1].jww.vMoji)
           \cup RecordsOf(written[1].jww.vSolid)

\* C20: a successful save emits, for every POLYLINE, LWPOLYLINE, SPLINE,
\* DIMENSION, LEADER, HATCH, IMAGE or VIEWPORT of the document, a record made
\* from that entity: none of them is left out of the output.
C20_PlaceholderKindsEmitted ==
  (written # <<>> /\ written[1].err = LC_OK) =>
    \A i \in 1..Len(entities) :
      entities[i].type \in PlaceholderKinds =>
        \E r \in WrittenRecords : r.src = i

(* ------------------------------------------------------------------ *)
(* Specification SpecTrip: read a DXF file, then save it as DXF or JWW  *)
(* The events carry colours inside and outside the pen range 1..9, arc  *)
(* angles in [0, 2 pi), empty and named layers, and text heights that   *)
(* are positive or zero.                                                *)
(* ------------------------------------------------------------------ *)
TColors == {-1, 0, 1, 9, 10, 256}
TAngles == {0, 90, 359}

TDrwPoints ==
  {[layer |-> "0", color |-> c, lineType |-> "BYLAYER", handle |-> 0,
    basePoint |-> P1] : c \in TColors}
TDrwLines ==
  {[layer |-> l, color |-> 5, lineType |-> "BYLAYER", handle |-> 0,
    basePoint |-> P0, secPoint |-> P2] : l \in {"", "L"}}
TDrwCircles ==
  {[layer |-> "0", color |-> c, lineType |-> "BYLAYER", handle |-> 0,
    basePoint |-> P1, radious |-> 20] : c \in {9, 10}}
TDrwArcs ==
  {[layer |-> "0", color |-> 256, lineType |-> "BYLAYER", handle |-> 0,
    basePoint |-> P1, radious |-> 10, staangle |-> a, endangle |-> b] :
     a \in TAngles, b \in TAngles}
TDrwTexts ==
  {[layer |-> "0", color |-> 7, lineType |-> "BYLAYER", handle |-> 0,
    text |-> "Hi", basePoint |-> P2, height |-> h, angle |-> 90] : h \in {0, 30}}

TripTargets == {<< <<"a", ".", "d", "x", "f">> >>, << <<"a", ".", "j", "w", "w">> >>}

NextTrip ==
  \/ \E d \in TDrwPoints : addPoint(d)
  \/ \E d \in TDrwLines : addLine(d)
  \/ \E d \in TDrwCircles : addCircle(d)
  \/ \E d \in TDrwArcs : addArc(d)
  \/ \E d \in TDrwTexts : addText(d)
  \/ \E d \in TDrwTexts : addMText(d)
  \/ \E d \in BDrwEllipses : addEllipse(d)
  \/ addSolid(Attr)
  \/ \E ptr \in WDrwKindOnly : addHatch(ptr)
  \/ \E d \in BDlPoints : Jww_addPoint(d)
  \/ ReadDone
  \/ \E filename \in TripTargets, io \in IoOutcomes :
       lc_document_save(filename, LC_DXF_VERSION_2007, io)

SpecTrip == Init /\ [][NextTrip]_vars

(* ------------------------------------------------------------------ *)
(* The JWW pen colour, checked under SpecTrip                           *)
(* ------------------------------------------------------------------ *)
\* the records of a JWW document, of every section
JwwRecords(j) ==
  RecordsOf(j.vSen) \cup RecordsOf(j.vEnko) \cup RecordsOf(j.vTen)
    \cup RecordsOf(j.vMoji) \cup RecordsOf(j.vSolid)

\* C21: in every record the JWW writer emits the pen colour is the entity's
\* colour when that lies in 1..9 and 1 otherwise (0, 256 and negative colours
\* included), so the pen colour always lies in 1..9.
C21_PenColourClamped ==
  SavedAs(LC_FORMAT_JWW) =>
    \A r \in JwwRecords(written[1].jww) :
      LET c == entities[r.src].color
      IN /\ r.m_nPenColor \in 1..9
         /\ r.m_nPenColor = IF c \in 1..9 THEN c ELSE 1

\* a saved JWW file with a record of a colour-9 entity and one of a colour -1 entity
C21_Witness ==
  /\ SavedAs(LC_FORMAT_JWW)
  /\ \E r \in JwwRecords(written[1].jww) :
       entities[r.src].color = 9 /\ r.m_nPenColor = 9
  /\ \E r \in JwwRecords(written[1].jww) :
       entities[r.src].color = -1 /\ r.m_nPenColor = 1

(* ------------------------------------------------------------------ *)
(* DXF in, DXF out, checked under SpecTrip                              *)
(* An event and the record written for it are both DRW_ structures, so  *)
(* their fields carry the same names.                                   *)
(* ------------------------------------------------------------------ *)
\* the geometry fields of a POINT, LINE, CIRCLE, ARC or TEXT
Geometry(kind, r) ==
  CASE kind = "POINT" -> <<r.basePoint>>
    [] kind = "LINE" -> <<r.basePoint, r.secPoint>>
    [] kind = "CIRCLE" -> <<r.basePoint, r.radious>>
    [] kind = "ARC" -> <<r.basePoint, r.radious, r.staangle, r.endangle>>
    [] kind = "TEXT" -> <<r.basePoint, r.text, r.height, r.angle>>

\* the record writeEntities makes of the entity this step has stored
RecordOfStored == DxfRecord(entities'[Len(entities')], Len(entities'))

\* the entity stored for event d is written as a record of the same kind,
\* layer, colour and geometry
RoundTripsAs(kind, d) ==
  /\ RecordOfStored # <<>>
  /\ RecordOfStored[1].kind = kind
  /\ RecordOfStored[1].layer = d.layer
  /\ RecordOfStored[1].color = d.color
  /\ Geometry(kind, RecordOfStored[1]) = Geometry(kind, d)

\* the same, with the two substitutions the writer makes: an empty layer name
\* becomes "0" and a text height that is not positive becomes the default
RoundTripsWithDefaults(kind, d) ==
  LET asWritten ==
        IF kind = "TEXT" /\ d.height <= 0
          THEN [d EXCEPT !.height = DefaultTextHeight] ELSE d
  IN /\ RecordOfStored # <<>>
     /\ RecordOfStored[1].kind = kind
     /\ RecordOfStored[1].layer = (IF d.layer = "" THEN "0" ELSE d.layer)
     /\ RecordOfStored[1].color = d.color
     /\ Geometry(kind, RecordOfStored[1]) = Geometry(kind, asWritten)

\* C22: DXF to document to DXF: for every POINT, LINE, CIRCLE, ARC and TEXT
\* event the DXF reader receives, the record the DXF writer makes of the stored
\* entity has the event's kind, layer name, colour and geometry fields.
C22_DxfRoundTrip ==
  [][/\ \A d \in TDrwPoints : addPoint(d) => RoundTripsAs("POINT", d)
     /\ \A d \in TDrwLines : addLine(d) => RoundTripsAs("LINE", d)
     /\ \A d \in TDrwCircles : addCircle(d) => RoundTripsAs("CIRCLE", d)
     /\ \A d \in TDrwArcs : addArc(d) => RoundTripsAs("ARC", d)
     /\ \A d \in TDrwTexts : addText(d) => RoundTripsAs("TEXT", d)]_vars

\* C22 as the code has it: the record has the event's kind, colour and geometry
\* fields and its layer name, except that an event with an empty layer name is
\* written on layer "0" and a TEXT event whose height is not positive is
\* written with the default height.
C22_DxfRoundTripWithDefaults ==
  [][/\ \A d \in TDrwPoints : addPoint(d) => RoundTripsWithDefaults("POINT", d)
     /\ \A d \in TDrwLines : addLine(d) => RoundTripsWithDefaults("LINE", d)
     /\ \A d \in TDrwCircles : addCircle(d) => RoundTripsWithDefaults("CIRCLE", d)
     /\ \A d \in TDrwArcs : addArc(d) => RoundTripsWithDefaults("ARC", d)
     /\ \A d \in TDrwTexts : addText(d) => RoundTripsWithDefaults("TEXT", d)]_vars

\* a saved DXF file holding a LINE of a named layer and a TEXT of positive
\* height, each as it was read
C22_Witness ==
  /\ SavedAs(LC_FORMAT_DXF)
  /\ \E r \in RecordsOf(written[1].dxfEntities) :
       r.kind = "LINE" /\ r.layer = "L" /\ entities[r.src].layer = "L"
  /\ \E r \in RecordsOf(written[1].dxfEntities) :
       r.kind = "TEXT" /\ r.height = 30 /\ entities[r.src].height = 30

(* ------------------------------------------------------------------ *)
(* Document to JWW and back, checked under SpecTrip                     *)
(* ------------------------------------------------------------------ *)
\* DL_Jww::in on a written record: the callback it makes and the data it
\* passes. A point record gives addPoint, a line record addLine, an arc record
\* with the full-circle flag addCircle and without it addArc from the start
\* angle over the arc angle, a text record addText. JWW records are planar, so
\* every z is 0. The pen colour travels in the attributes, which the data
\* structures of the callbacks do not hold.
JwwEventOf(r) ==
  CASE r.kind = "TEN" ->
         [cb |-> "addPoint", data |-> [x |-> r.m_start.x, y |-> r.m_start.y, z |-> 0]]
    [] r.kind = "SEN" ->
         [cb |-> "addLine",
          data |-> [x1 |-> r.m_start.x, y1 |-> r.m_start.y, z1 |-> 0,
                    x2 |-> r.m_end.x, y2 |-> r.m_end.y, z2 |-> 0]]
    [] r.kind = "ENKO" /\ r.m_bZenEnFlg = 1 ->
         [cb |-> "addCircle",
          data |-> [cx |-> r.m_start.x, cy |-> r.m_start.y, cz |-> 0,
                    radius |-> r.m_dHankei]]
    [] r.kind = "ENKO" /\ r.m_bZenEnFlg = 0 ->
         [cb |-> "addArc",
          data |-> [cx |-> r.m_start.x, cy |-> r.m_start.y, cz |-> 0,
                    radius |-> r.m_dHankei, angle1 |-> r.m_radKaishiKaku,
                    angle2 |-> r.m_radKaishiKaku + r.m_radEnkoKaku]]
    [] r.kind = "MOJI" ->
         [cb |-> "addText",
          data |-> [text |-> r.m_string, ipx |-> r.m_start.x, ipy |-> r.m_start.y,
                    ipz |-> 0, height |-> r.m_dSizeY, angle |-> 0]]

\* the entity JwwReaderImpl stores when the record r is read back
ReadBack(r) == JwwStored(JwwEventOf(r).cb, JwwEventOf(r).data)

RoundTripKinds ==
  {LC_ENTITY_POINT, LC_ENTITY_LINE, LC_ENTITY_CIRCLE, LC_ENTITY_ARC, LC_ENTITY_TEXT}

\* the geometry fields of an entity of RoundTripKinds, in the plane of a JWW file
PlanarGeometry(e) ==
  CASE e.type = LC_ENTITY_POINT -> <<e.point1.x, e.point1.y>>
    [] e.type = LC_ENTITY_LINE -> <<e.point1.x, e.point1.y, e.point2.x, e.point2.y>>
    [] e.type = LC_ENTITY_CIRCLE -> <<e.point1.x, e.point1.y, e.radius>>
    [] e.type = LC_ENTITY_ARC ->
         <<e.point1.x, e.point1.y, e.radius, e.startAngle, e.endAngle % TwoPi>>
    [] e.type = LC_ENTITY_TEXT -> <<e.point1.x, e.point1.y, e.text>>
    [] OTHER -> <<>>

\* C23: document to JWW to document: for every POINT, LINE, CIRCLE, ARC and
\* TEXT entity of a document saved as JWW, reading its record back with the JWW
\* reader gives an entity of the same kind, with the same geometry fields and
\* with the colour the writer clamped into 1..9.
C23_JwwRoundTrip ==
  SavedAs(LC_FORMAT_JWW) =>
    \A r \in JwwRecords(written[1].jww) :
      entities[r.src].type \in RoundTripKinds =>
        /\ ReadBack(r).type = entities[r.src].type
        /\ PlanarGeometry(ReadBack(r)) = PlanarGeometry(entities[r.src])
        /\ ReadBack(r).color = r.m_nPenColor
        /\ ReadBack(r).color \in 1..9

(* ------------------------------------------------------------------ *)
(* Validation after repair, checked under Spec                          *)
(* The two repairs are the ones the specification names: give the layer *)
(* table a layer "0" when it has none, then drop every entity whose     *)
(* layer or block reference names nothing in the tables.                *)
(* ------------------------------------------------------------------ *)
WithLayer0(ls) ==
  IF \E i \in 1..Len(ls) : ls[i].name = "0"
    THEN ls ELSE Append(ls, [LayerData EXCEPT !.name = "0"])

ReferencesDefined(e, ls, bs) ==
  /\ e.layer = "" \/ e.layer \in {ls[i].name : i \in 1..Len(ls)}
  /\ (e.type = LC_ENTITY_INSERT /\ e.blockName # "") =>
       e.blockName \in {bs[i].name : i \in 1..Len(bs)}

RepairedEntities ==
  LET Keep(e) == ReferencesDefined(e, WithLayer0(layers), blocks)
  IN SelectSeq(entities, Keep)

\* the validation result of the repaired document
RepairedResult ==
  validateDocument(WithLayer0(layers), blocks, RepairedEntities, minBound, maxBound)

CodesOf(r) == {r.issues[i].code : i \in 1..Len(r.issues)}

\* C24: a document repaired by adding a missing layer "0" and dropping every
\* entity with an undefined layer or block reference validates clean:
\* lc_document_validate reports no issue on it.
C24_RepairedValidatesClean ==
  phase = "open" => RepairedResult.issue_count = 0

\* C24 as the code has it: on the repaired document lc_document_validate
\* reports no MISSING_LAYER_0, UNDEFINED_LAYER or UNDEFINED_BLOCK. What it can
\* still report is what the repairs do not touch: EMPTY_DRAWING, INVALID_RADIUS
\* and INVALID_BOUNDS; the document is valid exactly when no INVALID_RADIUS is
\* left.
C24_RepairedHasNoReferenceIssue ==
  phase = "open" =>
    /\ CodesOf(RepairedResult) \subseteq {"EMPTY_DRAWING", "INVALID_RADIUS", "INVALID_BOUNDS"}
    /\ (RepairedResult.is_valid = 1) <=> ("INVALID_RADIUS" \notin CodesOf(RepairedResult))

\* a document with no layer "0" and an entity with an undefined reference,
\* whose repair drops that entity and leaves nothing to report
C24_Witness ==
  /\ phase = "open"
  /\ "MISSING_LAYER_0" \in CodesOf(lc_document_validate)
  /\ {"UNDEFINED_LAYER", "UNDEFINED_BLOCK"} \cap CodesOf(lc_document_validate) # {}
  /\ Len(RepairedEntities) < Len(entities)
  /\ RepairedResult.issue_count = 0

(* ------------------------------------------------------------------ *)
(* The callbacks with an empty body                                     *)
(* ------------------------------------------------------------------ *)
\* DocumentImpl's DRW_Interface callbacks whose body is {}
DxfSkipped ==
  {"addVport", "addView", "addUCS", "addAppId", "setBlock", "addRay", "addXline",
   "addKnot", "addTolerance", "linkImage", "addComment", "addPlotSettings"}

\* JwwReaderImpl's callbacks whose body is {} (endBlock is Jww_endBlock)
JwwSkipped ==
  {"addKnot", "addLeaderVertex", "addHatchLoop", "addHatchEdge", "linkImage",
   "endSequence", "endEntity", "addComment", "addMTextChunk"}

\* the parser delivers a construct to one of them: the body does nothing
Dxf_skip(cb) ==
  /\ InDxf(cb)
  /\ UNCHANGED <<docVars, arrived>>

Jww_skip(cb) ==
  /\ InJww(cb)
  /\ UNCHANGED <<docVars, arrived>>

(* ------------------------------------------------------------------ *)
(* Specification SpecSkip: a read with constructs the model drops       *)
(* ------------------------------------------------------------------ *)
NextSkip ==
  \/ \E cb \in DxfSkipped : Dxf_skip(cb)
  \/ \E cb \in JwwSkipped : Jww_skip(cb)
  \/ \E d \in BDrwPoints : addPoint(d)
  \/ \E d \in BDrwLines : addLine(d)
  \/ \E d \in BDlPoints : Jww_addPoint(d)
  \/ \E d \in BDlLines : Jww_addLine(d)
  \/ ReadDone
  \/ ReadFail

SpecSkip == Init /\ [][NextSkip]_vars

\* C25: every construct the reader skips (UCS, viewport table entries, views,
\* app-ids, plot settings, knots, hatch loops and edges, rays, xlines,
\* tolerances, comments) is counted: the callback that receives it changes the
\* reader's state, which holds the count of skipped constructs.
C25_SkippedConstructsCounted ==
  [][/\ \A cb \in DxfSkipped : Dxf_skip(cb) => docVars' # docVars
     /\ \A cb \in JwwSkipped : Jww_skip(cb) => docVars' # docVars]_vars

(* ------------------------------------------------------------------ *)
(* lc_document_close and the calls that open, use and close a document: *)
(* lc_convert, lc_get_file_info and lc_validate                         *)
(* conv.op is the call in progress, conv.arg its input filename,        *)
(* conv.pc its position ("entered" until it returns), conv.closes the   *)
(* number of lc_document_close calls it has made and conv.ret <<v>>     *)
(* with the value returned.                                             *)
(* ------------------------------------------------------------------ *)
\* lc_document_close on a document that is not NULL: delete it
lc_document_close ==
  /\ phase = "open"
  /\ phase' = "closed"
  /\ layers' = <<>>
  /\ blocks' = <<>>
  /\ currentBlock' = NoBlock
  /\ entities' = <<>>
  /\ arrived' = <<>>
  /\ minBound' = Coord(BoundSentinel, BoundSentinel, BoundSentinel)
  /\ maxBound' = Coord(-BoundSentinel, -BoundSentinel, -BoundSentinel)

ConvOps == {"lc_convert", "lc_get_file_info", "lc_validate"}

\* a caller enters one of the three functions with input filename <<fn>>
Conv_enter(op, filename) ==
  /\ conv.pc = "idle"
  /\ phase = "idle"
  /\ conv' = [op |-> op, arg |-> filename, pc |-> "entered", closes |-> 0, ret |-> <<>>]
  /\ UNCHANGED <<format, phase, lastEvent, arrived, docVars, g_last_error, result,
                 written, info, detected, dxfWriter>>

\* "LcDocument* doc = lc_document_open(...)", the first statement of each
Conv_open(exists) ==
  /\ conv.pc = "entered"
  /\ lc_document_open(conv.arg, exists)

\* what each function returns when lc_document_open gave NULL
OpenFailedValue ==
  CASE conv.op = "lc_convert" -> LC_ERR_READ_ERROR
    [] conv.op = "lc_get_file_info" -> <<>>
    [] conv.op = "lc_validate" ->
         [is_valid |-> 0, issue_count |-> 1,
          issues |-> <<Issue(LC_SEVERITY_ERROR, "FILE_ERROR", g_last_error,
                             CString(conv.arg[1]))>>]

\* "if (!doc) return ...": there is no document to close
Conv_openFailed ==
  /\ conv.pc = "entered"
  /\ phase = "failed"
  /\ conv' = [conv EXCEPT !.pc = "returned", !.ret = <<OpenFailedValue>>]
  /\ UNCHANGED <<format, phase, lastEvent, arrived, docVars, g_last_error, result,
                 written, info, detected, dxfWriter>>

\* the middle statement of each function, on the document it opened
lc_convert_save(output_file, dxf_version, io) ==
  /\ conv.pc = "entered" /\ conv.op = "lc_convert"
  /\ written = <<>>
  /\ lc_document_save(output_file, dxf_version, io)

lc_get_file_info_project(detail) ==
  /\ conv.pc = "entered" /\ conv.op = "lc_get_file_info"
  /\ info = <<>>
  /\ GetInfo(detail)

lc_validate_check ==
  /\ conv.pc = "entered" /\ conv.op = "lc_validate"
  /\ result = <<>>
  /\ Validate

\* the middle statement has run
ConvOperated ==
  CASE conv.op = "lc_convert" -> written # <<>>
    [] conv.op = "lc_get_file_info" -> info # <<>>
    [] conv.op = "lc_validate" -> result # <<>>
    [] OTHER -> FALSE

\* the value of the middle statement
ConvValue ==
  CASE conv.op = "lc_convert" -> written[1].err
    [] conv.op = "lc_get_file_info" -> info[1]
    [] conv.op = "lc_validate" -> result[1]

\* a function that returns a save error at once, without closing
Conv_leave_leakOnError ==
  /\ conv.pc = "entered"
  /\ phase = "open"
  /\ ConvOperated
  /\ IF conv.op = "lc_convert" /\ written[1].err # LC_OK
       THEN /\ conv' = [conv EXCEPT !.pc = "returned", !.ret = <<ConvValue>>]
            /\ UNCHANGED <<phase, arrived, docVars>>
       ELSE /\ lc_document_close
            /\ conv' = [conv EXCEPT !.pc = "returned", !.closes = @ + 1,
                                    !.ret = <<ConvValue>>]
  /\ UNCHANGED <<format, lastEvent, g_last_error, result, written, info, detected,
                 dxfWriter>>

\* "lc_document_close(doc); return ...;", the last two statements of each
Conv_leave ==
  /\ conv.pc = "entered"
  /\ ConvOperated
  /\ lc_document_close
  /\ conv' = [conv EXCEPT !.pc = "returned", !.closes = @ + 1, !.ret = <<ConvValue>>]
  /\ UNCHANGED <<format, lastEvent, g_last_error, result, written, info, detected,
                 dxfWriter>>

(* ------------------------------------------------------------------ *)
(* Specification SpecConv: the three calls, from entry to return        *)
(* ------------------------------------------------------------------ *)
ConvInputs ==
  {<< <<"a", ".", "d", "x", "f">> >>, << <<"a", ".", "j", "w", "w">> >>,
   << <<"a", ".", "t", "x", "t">> >>}

NextConv ==
  \/ \E op \in ConvOps, filename \in ConvInputs : Conv_enter(op, filename)
  \/ \E exists \in BOOLEAN : Conv_open(exists)
  \/ \E d \in BDrwPoints : addPoint(d)
  \/ \E d \in BDrwCircles : addCircle(d)
  \/ \E d \in BDlPoints : Jww_addPoint(d)
  \/ ReadDone
  \/ ReadFail
  \/ Conv_openFailed
  \/ \E output_file \in SaveTargets, io \in IoOutcomes :
       lc_convert_save(output_file, LC_DXF_VERSION_2007, io)
  \/ \E detail \in DetailLevels : lc_get_file_info_project(detail)
  \/ lc_validate_check
  \/ Conv_leave

SpecConv == InitOpen /\ [][NextConv]_vars

\* C26: lc_convert, lc_get_file_info and lc_validate close the document they
\* opened exactly once on every path, whether the save, projection or
\* validation succeeded or failed, and never return holding an open document:
\* a call that has returned either closed its document once or never had one.
C26_ClosedExactlyOnce ==
  /\ conv.closes <= 1
  /\ conv.pc = "returned" =>
       \/ phase = "closed" /\ conv.closes = 1
       \/ phase = "failed" /\ conv.closes = 0

\* lc_convert has returned the error of a failed save, with its document closed
C26_Witness ==
  /\ conv.pc = "returned"
  /\ conv.op = "lc_convert"
  /\ conv.ret = <<LC_ERR_WRITE_ERROR>>
  /\ phase = "closed"
  /\ conv.closes = 1

(* ------------------------------------------------------------------ *)
(* The JWW section counters and the arc angle, checked under SpecTrip   *)
(* ------------------------------------------------------------------ *)
\* the kinds the conversion loop of lc_document_save_jww has an arm for
JwwKinds ==
  {LC_ENTITY_POINT, LC_ENTITY_LINE, LC_ENTITY_CIRCLE, LC_ENTITY_ARC, LC_ENTITY_ELLIPSE,
   LC_ENTITY_TEXT, LC_ENTITY_MTEXT, LC_ENTITY_SOLID}

\* C27: after the conversion loop of the JWW writer every section counter
\* equals the length of its record vector (lines, arcs, points, texts, solids)
\* and the counters add up to the number of entities of the kinds POINT, LINE,
\* CIRCLE, ARC, ELLIPSE, TEXT, MTEXT and SOLID.
C27_CountersMatchVectors ==
  SavedAs(LC_FORMAT_JWW) =>
    LET j == written[1].jww
    IN /\ j.SaveSenCount = Len(j.vSen)
       /\ j.SaveEnkoCount = Len(j.vEnko)
       /\ j.SaveTenCount = Len(j.vTen)
       /\ j.SaveMojiCount = Len(j.vMoji)
       /\ j.SaveSolidCount = Len(j.vSolid)
       /\ j.SaveSenCount + j.SaveEnkoCount + j.SaveTenCount + j.SaveMojiCount
            + j.SaveSolidCount
          = Cardinality({i \in 1..Len(entities) : entities[i].type \in JwwKinds})

\* a saved JWW file of a document with a SOLID, which is counted, and a HATCH,
\* which is not
C27_Witness ==
  /\ SavedAs(LC_FORMAT_JWW)
  /\ Len(entities) = 2
  /\ \E i \in 1..2 : entities[i].type = LC_ENTITY_HATCH
  /\ written[1].jww.SaveSolidCount = 1
  /\ written[1].jww.SaveSenCount = 0

\* C28: for an ARC the JWW writer stores the arc angle end - start when
\* end >= start and end - start + 2 pi when end < start; for start and end in
\* [0, 2 pi) the stored angle lies in [0, 2 pi), and the full-circle flag is 0.
C28_ArcAngleWraps ==
  SavedAs(LC_FORMAT_JWW) =>
    \A r \in RecordsOf(written[1].jww.vEnko) :
      entities[r.src].type = LC_ENTITY_ARC =>
        LET e == entities[r.src]
        IN /\ r.m_radEnkoKaku = IF e.endAngle >= e.startAngle
                                   THEN e.endAngle - e.startAngle
                                   ELSE e.endAngle - e.startAngle + TwoPi
           /\ (e.startAngle \in 0..(TwoPi - 1) /\ e.endAngle \in 0..(TwoPi - 1)) =>
                r.m_radEnkoKaku \in 0..(TwoPi - 1)
           /\ r.m_bZenEnFlg = 0

\* a saved arc that crosses angle 0 and one whose end equals its start
C28_Witness ==
  /\ SavedAs(LC_FORMAT_JWW)
  /\ \E r \in RecordsOf(written[1].jww.vEnko) :
       /\ entities[r.src].type = LC_ENTITY_ARC
       /\ entities[r.src].startAngle = 359 /\ entities[r.src].endAngle = 90
       /\ r.m_radEnkoKaku = 91
  /\ \E r \in RecordsOf(written[1].jww.vEnko) :
       /\ entities[r.src].type = LC_ENTITY_ARC
       /\ entities[r.src].startAngle = 90 /\ entities[r.src].endAngle = 90
       /\ r.m_radEnkoKaku = 0

(* ------------------------------------------------------------------ *)
(* The DXF branch of lc_document_save, statement by statement           *)
(* Between "impl->dxfWriter = &dxf" and "impl->dxfWriter = nullptr" the *)
(* document is in phase "saving": dxf.write is running and calls the    *)
(* document's write callbacks. dxfWriter then points to the dxfRW of    *)
(* this save, <<[version |-> v]>> with the version it writes.           *)
(* ------------------------------------------------------------------ *)
\* up to the call of dxf.write: the argument check, lc_detect_format and
\* "impl->dxfWriter = &dxf"
lc_document_save_begin(filename, version) ==
  /\ phase = "open"
  /\ filename # <<>>
  /\ lc_detect_format(filename) = LC_FORMAT_DXF
  /\ phase' = "saving"
  /\ dxfWriter' = <<[version |-> version]>>
  /\ UNCHANGED <<format, lastEvent, arrived, docVars, g_last_error, result, written,
                 info, detected, conv>>

\* a return that resets the pointer only when the write succeeded
lc_document_save_end_keptOnFailure(io) ==
  /\ phase = "saving"
  /\ phase' = "open"
  /\ IF io = "ok"
       THEN /\ dxfWriter' = <<>>
            /\ written' = <<SaveOutcome(LC_OK, LC_FORMAT_DXF, DxfTables(dxfWriter[1].version),
                                        writeEntities(entities), JwwEmpty)>>
            /\ UNCHANGED g_last_error
       ELSE /\ UNCHANGED dxfWriter
            /\ written' = <<SaveFailed(LC_ERR_WRITE_ERROR, LC_FORMAT_DXF)>>
            /\ g_last_error' = "Failed to write DXF file"
  /\ UNCHANGED <<format, lastEvent, arrived, docVars, result, info, detected, conv>>

\* dxf.write has returned: "impl->dxfWriter = nullptr", then the error return
\* or "return LC_OK"
lc_document_save_end(io) ==
  /\ phase = "saving"
  /\ phase' = "open"
  /\ dxfWriter' = <<>>
  /\ IF io = "ok"
       THEN /\ written' = <<SaveOutcome(LC_OK, LC_FORMAT_DXF, DxfTables(dxfWriter[1].version),
                                        writeEntities(entities), JwwEmpty)>>
            /\ UNCHANGED g_last_error
       ELSE /\ written' = <<SaveFailed(LC_ERR_WRITE_ERROR, LC_FORMAT_DXF)>>
            /\ g_last_error' = "Failed to write DXF file"
  /\ UNCHANGED <<format, lastEvent, arrived, docVars, result, info, detected, conv>>

(* ------------------------------------------------------------------ *)
(* Specification SpecSave: a document that is saved again and again     *)
(* DXF targets go through the two steps above, the other targets and a  *)
(* NULL filename through lc_document_save as a whole.                   *)
(* ------------------------------------------------------------------ *)
DxfTargets == {<< <<"a", ".", "d", "x", "f">> >>, << <<"b", ".", "D", "X", "F">> >>}
OtherTargets == {<<>>, << <<"a", ".", "j", "w", "w">> >>, << <<"a", ".", "t", "x", "t">> >>}

NextSave ==
  \/ \E d \in DrwLayers : addLayer(d)
  \/ \E d \in EDrwBlocks : addBlock(d)
  \/ \E d \in BDrwPoints : addPoint(d)
  \/ \E d \in BDrwCircles : addCircle(d)
  \/ \E d \in BDlPoints : Jww_addPoint(d)
  \/ ReadDone
  \/ \E filename \in DxfTargets : lc_document_save_begin(filename, LC_DXF_VERSION_2007)
  \/ \E io \in {"ok", "write_fail"} : lc_document_save_end(io)
  \/ \E filename \in OtherTargets, io \in IoOutcomes :
       lc_document_save(filename, LC_DXF_VERSION_2007, io)

SpecSave == Init /\ [][NextSave]_vars

\* a step of lc_document_save: it enters or leaves the DXF write, or a save
\* has left its outcome
SaveStep == phase = "saving" \/ phase' = "saving" \/ written' # written

\* C29: the document's writer back-reference dxfWriter is null in every state
\* outside a save in progress: it is set exactly while the DXF write runs and
\* is null again after the success return and after the failure return; and no
\* step of lc_document_save, whatever its result, changes the document's
\* layers, blocks, entities or bounds.
C29_WriterNullOutsideSave ==
  /\ [](dxfWriter # <<>> <=> phase = "saving")
  /\ [][SaveStep => docVars' = docVars]_vars

\* a document with a layer and an entity after a failed DXF write: the pointer
\* is null again
C29_Witness ==
  /\ phase = "open"
  /\ written # <<>>
  /\ written[1].target = LC_FORMAT_DXF
  /\ written[1].err = LC_ERR_WRITE_ERROR
  /\ dxfWriter = <<>>
  /\ layers # <<>> /\ entities # <<>>

(* ------------------------------------------------------------------ *)
(* The last-error message, checked under SpecWrite                      *)
(* ------------------------------------------------------------------ *)
\* lc_last_error: "return g_last_error.c_str();"
lc_last_error == g_last_error

\* this step is an lc_document_open that returns NULL
OpenFails == phase # "failed" /\ phase' = "failed"

\* this step is an lc_document_save on the open document: it leaves the
\* validation result and the info report alone
SaveReturns == phase = "open" /\ phase' = "open" /\ result' = result /\ info' = info

\* this step is an open, save, validate or info call that succeeds
CallSucceeds ==
  \/ phase = "reading" /\ phase' = "open"
  \/ SaveReturns /\ written' # written /\ written'[1].err = LC_OK
  \/ result' # result
  \/ info' # info

\* C30: the last-error message is written only by an lc_document_open or an
\* lc_document_save that fails: a step that changes what lc_last_error returns
\* is one of those, and an open, save, validate or info call that succeeds
\* leaves the message of an earlier failure as it was.
C30_LastErrorOnlyOnFailure ==
  [][/\ lc_last_error' # lc_last_error =>
          \/ OpenFails
          \/ SaveReturns /\ written' # <<>> /\ written'[1].err # LC_OK
     /\ CallSucceeds => lc_last_error' = lc_last_error]_vars

\* after a failed save, a successful save, a validation and a projection:
\* the message is still that of the failure
C30_Witness ==
  /\ lc_last_error = "Unsupported output format"
  /\ written # <<>> /\ written[1].err = LC_OK
  /\ result # <<>>
  /\ info # <<>>
====
